---- MODULE Spec2Model ----
(***************************************************************************)
(* Model of the PlatformIO command executor (execPioCommand,               *)
(* PlatformIOExecutor.execute / executeWithJsonOutput, parsePioJsonOutput) *)
(* and of the error classification it rests on                             *)
(* (isPlatformIONotFoundError and the error classes of utils/errors.ts).   *)
(*                                                                         *)
(* Strings are sequences of words.  A message, a stderr text and an        *)
(* argument vector joined by spaces are sequences of words; a stdout body  *)
(* is a sequence of JSON lexemes.  String.includes is modelled per word    *)
(* through the table Occurs, String.toLowerCase through the table          *)
(* LowerWord.                                                              *)
(***************************************************************************)
EXTENDS Integers, Sequences, FiniteSets, TLC

VARIABLES
  pc,       \* position of the call: "idle", "spawning", "running", "done"
  call,     \* the call in progress: api, command, args, schema, options
  argv,     \* the argument vector execPioCommand hands to execFile
  timeout,  \* the timeout execPioCommand hands to execFile
  bin,      \* the binary name of the attempt in progress
  procs,    \* log of the execFile attempts of this call, in order
  outcome,  \* what the call returned or raised
  tasks,    \* the execute calls running concurrently, each with its own
            \* pc, call, argv, timeout, bin, procs and outcome
  dirs      \* the directories created with mkdir

vars == <<pc, call, argv, timeout, bin, procs, outcome, tasks, dirs>>

\* the state a single call of the executor leaves alone
others == <<tasks, dirs>>

----------------------------------------------------------------------------
(* Bounds of the model *)

\* longest argument list a caller passes
MaxArgs == 2
\* largest exit status the external tool exits with
MaxExitCode == 2

----------------------------------------------------------------------------
(* JavaScript values *)

Undefined == [t |-> "undefined"]
Null == [t |-> "null"]
Num(n) == [t |-> "number", n |-> n]
Str(words) == [t |-> "string", s |-> words]
Bool(b) == [t |-> "boolean", b |-> b]
\* the numbers that are no integers: NaN, n + 1/2 and Infinity
NaN == [t |-> "number", n |-> 0, nan |-> TRUE]
Half(n) == [t |-> "number", n |-> n, half |-> TRUE]
Infinity == [t |-> "number", n |-> 1, inf |-> TRUE]
\* Number.isInteger
isInteger(v) == v.t = "number" /\ DOMAIN v = {"t", "n"}

\* ToBoolean: undefined, null, 0, '' and false are falsy
Truthy(v) ==
  CASE v.t = "undefined" -> FALSE
    [] v.t = "null" -> FALSE
    [] v.t = "number" -> (v.n # 0 \/ "half" \in DOMAIN v) /\ v # NaN
    [] v.t = "string" -> Len(v.s) > 0
    [] v.t = "boolean" -> v.b
    [] OTHER -> TRUE

\* x || ''
OrEmpty(v) == IF Truthy(v) THEN v ELSE Str(<<>>)

\* String.prototype.toLowerCase, word by word
LowerWord(w) ==
  CASE w = "ENOENT" -> "enoent"
    [] w = "EACCES" -> "eacces"
    [] w = "Not Found" -> "not found"
    [] w = "Command failed:" -> "command failed:"
    [] w = "Error:" -> "error:"
    [] w = "PlatformIO" -> "platformio"
    [] w = "CLI is not installed or" -> "cli is not installed or"
    [] w = "in PATH" -> "in path"
    [] w = "Empty output from PlatformIO command" ->
         "empty output from platformio command"
    [] OTHER -> w

toLowerCase(text) == [i \in DOMAIN text |-> LowerWord(text[i])]

\* the needles of isPlatformIONotFoundError and of listInstalledLibraries
\* that occur inside a lower-case word
Occurs(w) ==
  CASE w = "enoent" -> {"enoent"}
    [] w = "empty output from platformio command" -> {"empty", "platformio"}
    [] w = "not found" -> {"not found"}
    [] w = "command not found" -> {"not found", "command not found"}
    [] w = "platformio" -> {"platformio"}
    [] w = "is not recognized" -> {"not recognized"}
    [] w = "PlatformIO Core," -> {"PlatformIO"}
    [] OTHER -> {}

\* String.prototype.includes
includes(text, needle) == \E i \in DOMAIN text : needle \in Occurs(text[i])

----------------------------------------------------------------------------
(* utils/errors.ts *)

DEFAULT_TIMEOUT == 300000

PlatformIOError(message, code, context) ==
  [class |-> "PlatformIOError", message |-> message, code |-> code,
   context |-> context, killed |-> Undefined, signal |-> Undefined,
   stdout |-> Undefined, stderr |-> Undefined]

\* the class with the code handed to super() left out
PlatformIONotInstalledError_NoCode ==
  [PlatformIOError(<<"PlatformIO", "CLI is not installed or", "not found", "in PATH">>,
                   Undefined, Undefined)
     EXCEPT !.class = "PlatformIONotInstalledError"]

PlatformIONotInstalledError ==
  [PlatformIOError(<<"PlatformIO", "CLI is not installed or", "not found", "in PATH">>,
                   Str(<<"PLATFORMIO_NOT_INSTALLED">>), Undefined)
     EXCEPT !.class = "PlatformIONotInstalledError"]

CommandTimeoutError(command, ms) ==
  [PlatformIOError(<<"Command">> \o command \o <<"timed out after">>,
                   Str(<<"COMMAND_TIMEOUT">>),
                   [t |-> "object", command |-> Str(command), timeout |-> Num(ms)])
     EXCEPT !.class = "CommandTimeoutError"]

isPlatformIONotFoundError(error) ==
  LET message == toLowerCase(error.message) IN
    \/ includes(message, "enoent")
    \/ includes(message, "not found")
    \/ includes(message, "command not found")
    \/ (includes(message, "platformio") /\ includes(message, "not recognized"))

----------------------------------------------------------------------------
(* child_process.execFile, promisified: what awaiting it can yield.        *)
(* Every rejection carries the stdout and stderr collected so far (empty   *)
(* strings when no process ran).  A spawn failure carries the errno name   *)
(* as its code; a run that failed carries the message                      *)
(* 'Command failed: <file> <args joined by spaces>\n<stderr>'.             *)

\* the promise resolves: the process exited with status 0
Resolved(stdout, stderr) ==
  [ok |-> TRUE, stdout |-> Str(stdout), stderr |-> Str(stderr)]

Rejected(error) == [ok |-> FALSE, error |-> error]

\* the operating system could not start `file` (errno ENOENT, EACCES)
SpawnError(file, errno) ==
  [class |-> "Error", message |-> <<"spawn", file, errno>>,
   code |-> Str(<<errno>>), context |-> Undefined,
   killed |-> Undefined, signal |-> Undefined,
   stdout |-> Str(<<>>), stderr |-> Str(<<>>)]

\* the process ran and ended with a non-zero status or by a signal
ExitError(file, args, code, killed, signal, stdout, stderr) ==
  [class |-> "Error", message |-> <<"Command failed:", file>> \o args \o stderr,
   code |-> code, context |-> Undefined,
   killed |-> Bool(killed), signal |-> signal,
   stdout |-> Str(stdout), stderr |-> Str(stderr)]

\* the process wrote more than maxBuffer: it is killed, stdout is cut at the cap
MaxBufferError(stdout, stderr) ==
  [class |-> "RangeError", message |-> <<"stdout maxBuffer length exceeded">>,
   code |-> Str(<<"ERR_CHILD_PROCESS_STDIO_MAXBUFFER">>), context |-> Undefined,
   killed |-> Undefined, signal |-> Undefined,
   stdout |-> Str(stdout), stderr |-> Str(stderr)]

----------------------------------------------------------------------------
(* execPioCommand *)

Return(value) == [kind |-> "return", value |-> value]
Throw(error) == [kind |-> "throw", error |-> error]
NoOutcome == [kind |-> "none"]

\* options.timeout ?? DEFAULT_TIMEOUT
TimeoutOf(options) ==
  IF "timeout" \in DOMAIN options THEN options.timeout ELSE DEFAULT_TIMEOUT

\* the outer catch block
OuterCatch(error, args, ms) ==
  IF Truthy(error.killed) /\ error.signal = Str(<<"SIGTERM">>)
    THEN Throw(CommandTimeoutError(args, ms))
  ELSE IF isPlatformIONotFoundError(error)
    THEN Throw(PlatformIONotInstalledError)
  ELSE IF Truthy(error.code) /\ error.stdout # Undefined
    THEN Return([stdout |-> OrEmpty(error.stdout),
                 stderr |-> OrEmpty(error.stderr),
                 exitCode |-> error.code])
  ELSE Throw(error)

\* the inner try/catch around execFileAsync('pio', ...): TRUE when the
\* rejection sends the call on to execFileAsync('platformio', ...)
TriesAlias(file, r) ==
  file = "pio" /\ ~r.ok /\ isPlatformIONotFoundError(r.error)

\* what execPioCommand returns or raises once the attempt `file` settled as r
\* and no further attempt follows
Settle(file, r, args, ms) ==
  IF r.ok
    THEN Return([stdout |-> OrEmpty(r.stdout),
                 stderr |-> OrEmpty(r.stderr),
                 exitCode |-> Num(0)])
  ELSE IF file = "platformio" /\ isPlatformIONotFoundError(r.error)
    THEN OuterCatch(PlatformIONotInstalledError, args, ms)
  ELSE OuterCatch(r.error, args, ms)

----------------------------------------------------------------------------
(* JSON.parse, on a body of lexemes: an object has at most one member *)

StringLexemes == {"\"id\"", "\"x\""}

\* the string a string lexeme denotes
Unquote(lx) == IF lx = "\"id\"" THEN "id" ELSE "x"

\* index of the first lexeme at or after i that is not white space
SkipWs(s, i) ==
  CHOOSE j \in i..(Len(s) + 1) :
    /\ \A k \in i..(j - 1) : s[k] = " "
    /\ (j = Len(s) + 1 \/ s[j] # " ")

At(s, i, lx) == i <= Len(s) /\ s[i] = lx

SyntaxError == [ok |-> FALSE]
Parsed(val, next) == [ok |-> TRUE, val |-> val, next |-> next]
Object(members) == [t |-> "object", members |-> members]

RECURSIVE ParseValue(_, _)
ParseValue(s, i) ==
  IF i > Len(s) THEN SyntaxError
  ELSE IF s[i] \in StringLexemes THEN Parsed(Str(<<Unquote(s[i])>>), i + 1)
  ELSE IF s[i] = "1" THEN Parsed(Num(1), i + 1)
  ELSE IF s[i] = "[]" THEN Parsed([t |-> "array", items |-> <<>>], i + 1)
  ELSE IF s[i] = "{" THEN
    LET j == SkipWs(s, i + 1) IN
    IF At(s, j, "}") THEN Parsed(Object(<<>>), j + 1)
    ELSE IF j <= Len(s) /\ s[j] \in StringLexemes THEN
      LET k == SkipWs(s, j + 1) IN
      IF At(s, k, ":") THEN
        LET v == ParseValue(s, SkipWs(s, k + 1)) IN
        IF v.ok THEN
          LET e == SkipWs(s, v.next) IN
          IF At(s, e, "}")
            THEN Parsed(Object(<< <<Unquote(s[j]), v.val>> >>), e + 1)
            ELSE SyntaxError
        ELSE SyntaxError
      ELSE SyntaxError
    ELSE SyntaxError
  ELSE SyntaxError

JSONparse(s) ==
  LET v == ParseValue(s, SkipWs(s, 1)) IN
  IF v.ok /\ SkipWs(s, v.next) = Len(s) + 1 THEN v ELSE SyntaxError

\* String.prototype.trim
trim(s) ==
  IF \A k \in DOMAIN s : s[k] = " " THEN <<>>
  ELSE LET first == SkipWs(s, 1)
           last == CHOOSE j \in DOMAIN s :
                     s[j] # " " /\ \A k \in (j + 1)..Len(s) : s[k] = " "
       IN SubSeq(s, first, last)

\* String.prototype.substring(0, n)
substring(s, n) == SubSeq(s, 1, IF Len(s) < n THEN Len(s) ELSE n)

----------------------------------------------------------------------------
(* schema.parse for the schemas z.object({id: z.string()}) ("idString")   *)
(* and z.object({id: z.number()}) ("idNumber"): unknown keys are stripped  *)

Schemas == {"idString", "idNumber"}

ZodError(issues) == [ok |-> FALSE, issues |-> issues]

\* PioBoardsOutputSchema is z.record(z.array(BoardInfoSchema)), and
\* LibrariesArraySchema and DevicesArraySchema are array schemas: the one
\* array of the bodies here is the empty one, so the first accepts the empty
\* object alone and the other two the empty array alone
SchemaParse(schema, val) ==
  IF schema \in {"LibrariesArraySchema", "DevicesArraySchema"}
    THEN IF val.t = "array"
           THEN [ok |-> TRUE, value |-> val.items]
           ELSE ZodError(<<"root">>)
  ELSE IF val.t # "object" THEN ZodError(<<"root">>)
  ELSE IF schema = "PioBoardsOutputSchema"
    THEN IF val.members = <<>>
           THEN [ok |-> TRUE, value |-> Object(<<>>)]
           ELSE ZodError(<<val.members[1][1]>>)
  ELSE IF \A m \in DOMAIN val.members : val.members[m][1] # "id"
    THEN ZodError(<<"id">>)
  ELSE LET id == val.members[CHOOSE m \in DOMAIN val.members :
                               val.members[m][1] = "id"][2]
           want == IF schema = "idString" THEN "string" ELSE "number"
       IN IF id.t = want
            THEN [ok |-> TRUE, value |-> Object(<< <<"id", id>> >>)]
            ELSE ZodError(<<"id">>)

----------------------------------------------------------------------------
(* parsePioJsonOutput *)

SampleLength == 500

\* the parser without the guard against empty output
parsePioJsonOutput_NoEmptyGuard(output, schema) ==
  LET parsed == JSONparse(output) IN
    IF ~parsed.ok
      THEN Throw(PlatformIOError(<<"Invalid JSON output from PlatformIO:">>,
                   Str(<<"INVALID_JSON">>),
                   [t |-> "object",
                    output |-> Str(substring(output, SampleLength))]))
    ELSE LET checked == SchemaParse(schema, parsed.val) IN
      IF ~checked.ok
        THEN Throw(PlatformIOError(<<"Failed to parse PlatformIO output:">>,
                     Str(<<"PARSE_ERROR">>),
                     [t |-> "object", zodError |-> checked.issues,
                      output |-> Str(substring(output, SampleLength))]))
        ELSE Return(checked.value)

parsePioJsonOutput(output, schema) ==
  IF ~Truthy(Str(output)) \/ Len(trim(output)) = 0
    THEN Throw(PlatformIOError(<<"Empty output from PlatformIO command">>,
                               Undefined, Undefined))
  ELSE LET parsed == JSONparse(output) IN
    IF ~parsed.ok
      THEN Throw(PlatformIOError(<<"Invalid JSON output from PlatformIO:">>,
                   Str(<<"INVALID_JSON">>),
                   [t |-> "object",
                    output |-> Str(substring(output, SampleLength))]))
    ELSE LET checked == SchemaParse(schema, parsed.val) IN
      IF ~checked.ok
        THEN Throw(PlatformIOError(<<"Failed to parse PlatformIO output:">>,
                     Str(<<"PARSE_ERROR">>),
                     [t |-> "object", zodError |-> checked.issues,
                      output |-> Str(substring(output, SampleLength))]))
        ELSE Return(checked.value)

----------------------------------------------------------------------------
(* PlatformIOExecutor *)

\* execute: fullArgs = [command, ...args]
ExecuteArgs(command, args) == <<command>> \o args

\* the flag pushed without looking whether args already holds it
JsonArgs_AlwaysPush(args) == Append(args, "--json-output")

\* executeWithJsonOutput: ensure --json-output is included
JsonArgs(args) ==
  IF \E i \in DOMAIN args : args[i] = "--json-output"
    THEN args
    ELSE Append(args, "--json-output")

\* what the call c makes of r, the outcome of its execPioCommand
AfterExecute(c, r) ==
  IF c.api \in {"execute", "execPioCommand"} \/ r.kind = "throw" THEN r
  ELSE IF r.value.exitCode # Num(0)
    THEN Throw(PlatformIOError(<<"PlatformIO command failed:", c.command>> \o c.args,
                 Str(<<"COMMAND_FAILED">>),
                 [t |-> "object", stderr |-> r.value.stderr,
                  exitCode |-> r.value.exitCode]))
  ELSE parsePioJsonOutput(r.value.stdout.s, c.schema)

----------------------------------------------------------------------------
(* The tools on top of the executor: what each makes of the outcome r of   *)
(* its executor call.  A call c made by a tool carries the tool's name and *)
(* arguments in c.tool.                                                    *)

BoardNotFoundError(boardId) ==
  [PlatformIOError(<<"Board", boardId, "not found in PlatformIO registry">>,
                   Str(<<"BOARD_NOT_FOUND">>), [boardId |-> boardId])
     EXCEPT !.class = "BoardNotFoundError"]

ProjectInitError(message, context) ==
  [PlatformIOError(message, Str(<<"PROJECT_INIT_FAILED">>), context)
     EXCEPT !.class = "ProjectInitError"]

LibraryError(message, context) ==
  [PlatformIOError(message, Str(<<"LIBRARY_ERROR">>), context)
     EXCEPT !.class = "LibraryError"]

\* error instanceof PlatformIOError
IsPlatformIOError(error) ==
  error.class \in {"PlatformIOError", "PlatformIONotInstalledError",
                   "CommandTimeoutError", "BoardNotFoundError",
                   "ProjectInitError", "LibraryError"}

\* `${error}`
ErrorText(error) == <<error.class>> \o error.message

\* the catch blocks of listDevices and listInstalledLibraries with the
\* message left unread
IsEmptyListError_AnyPlatformIOError(error, needle) == IsPlatformIOError(error)

\* the catch blocks of listDevices and listInstalledLibraries: the error
\* that stands for an empty list
IsEmptyListError(error, needle) ==
  /\ IsPlatformIOError(error)
  /\ \/ includes(toLowerCase(error.message), needle)
     \/ includes(toLowerCase(error.message), "empty")

\* the try/catch of installLibrary, uninstallLibrary and updateLibraries
\* around execute
AfterLibraryCommand(c, r, failed) ==
  IF r.kind = "throw"
    THEN Throw(LibraryError(<<failed>> \o ErrorText(r.error), c.tool))
  ELSE IF r.value.exitCode # Num(0)
    THEN Throw(LibraryError(<<failed>> \o r.value.stderr.s,
                            [stderr |-> r.value.stderr]))
  ELSE Return([success |-> TRUE, message |-> <<"Successfully", c.tool.name>>])

\* checkPlatformIOInstalled with the catch block left out
checkPlatformIOInstalled_NoCatch(r) ==
  IF r.kind = "return"
    THEN Return(Bool(r.value.exitCode = Num(0)
                       /\ \E i \in DOMAIN r.value.stdout.s :
                            "PlatformIO" \in Occurs(r.value.stdout.s[i])))
  ELSE r

\* checkPlatformIOInstalled, of the outcome r of
\* execPioCommand(['--version'], { timeout: 5000 })
checkPlatformIOInstalled(r) ==
  IF r.kind = "return"
    THEN Return(Bool(r.value.exitCode = Num(0)
                       /\ \E i \in DOMAIN r.value.stdout.s :
                            "PlatformIO" \in Occurs(r.value.stdout.s[i])))
  ELSE IF r.error.class = "PlatformIONotInstalledError" THEN Return(Bool(FALSE))
  ELSE r

\* the words /version/i matches, and what [\d\.]+ takes of the word after
VersionKeywords == {"version", "Version"}
NumberPrefix(w) ==
  CASE w = "6.1.0" -> "6.1.0"
    [] w = "6.1.0rc1" -> "6.1.0"
    [] OTHER -> ""

\* stdout.match(/version\s+([\d\.]+)/i): the places of the words matched
versionMatches(stdout) ==
  {i \in 1..(Len(stdout) - 1) :
     stdout[i] \in VersionKeywords /\ NumberPrefix(stdout[i + 1]) # ""}

FailedToGetVersion ==
  PlatformIOError(<<"Failed to get PlatformIO version">>, Undefined, Undefined)

getPlatformIOVersion(r) ==
  IF r.kind = "return"
    THEN IF r.value.exitCode = Num(0)
           THEN LET stdout == r.value.stdout.s
                    found == versionMatches(stdout)
                IN IF found # {}
                     THEN LET i == CHOOSE i \in found : \A j \in found : i <= j
                          IN Return(Str(<<NumberPrefix(stdout[i + 1])>>))
                     ELSE Return(Str(trim(stdout)))
         ELSE Throw(FailedToGetVersion)
  ELSE IF r.error.class = "PlatformIONotInstalledError" THEN r
  ELSE Throw(FailedToGetVersion)

AfterTool(c, r) ==
  IF "tool" \notin DOMAIN c THEN r
  ELSE CASE c.tool.name = "checkInstallation" -> checkPlatformIOInstalled(r)
    [] c.tool.name = "getVersion" -> getPlatformIOVersion(r)
    [] c.tool.name = "getBoardInfo" ->
         \* a validated record here has no member, so no platform lists the board
         IF r.kind = "return"
           THEN Throw(BoardNotFoundError(c.tool.boardId))
           ELSE Throw(PlatformIOError(
                        <<"Failed to get board info for", c.tool.boardId>>
                          \o ErrorText(r.error),
                        Str(<<"GET_BOARD_INFO_FAILED">>),
                        [boardId |-> c.tool.boardId]))
    [] c.tool.name = "initProject" ->
         IF r.kind = "throw"
           THEN Throw(ProjectInitError(<<"Failed to initialize project:">>
                                         \o ErrorText(r.error), c.tool))
         ELSE IF r.value.exitCode # Num(0)
           THEN Throw(ProjectInitError(<<"Failed to initialize project:">>
                                         \o r.value.stderr.s,
                                       [stderr |-> r.value.stderr,
                                        exitCode |-> r.value.exitCode]))
         ELSE Return([success |-> TRUE, path |-> c.options.cwd,
                      message |-> <<"Successfully initialized PlatformIO project">>])
    [] c.tool.name = "installLibrary" ->
         AfterLibraryCommand(c, r, "Failed to install library")
    [] c.tool.name = "uninstallLibrary" ->
         AfterLibraryCommand(c, r, "Failed to uninstall library")
    [] c.tool.name = "updateLibraries" ->
         AfterLibraryCommand(c, r, "Failed to update libraries:")
    [] c.tool.name = "listInstalledLibraries" ->
         IF r.kind = "return" THEN r
         ELSE IF IsEmptyListError(r.error, "no libraries") THEN Return(<<>>)
         ELSE Throw(LibraryError(<<"Failed to list installed libraries">>
                                   \o ErrorText(r.error), c.tool))
    [] c.tool.name = "listBoards" ->
         \* a validated record here has no member: the flattened list is empty
         IF r.kind = "return" THEN Return(<<>>)
         ELSE Throw(PlatformIOError(<<"Failed to list boards">>
                                      \o ErrorText(r.error),
                                    Str(<<"LIST_BOARDS_FAILED">>),
                                    [filter |-> c.tool.filter]))
    [] c.tool.name = "listDevices" ->
         IF r.kind = "return" THEN r
         ELSE IF IsEmptyListError(r.error, "no devices") THEN Return(<<>>)
         ELSE Throw(PlatformIOError(<<"Failed to list devices:">>
                                      \o ErrorText(r.error),
                                    Str(<<"LIST_DEVICES_FAILED">>), Undefined))
    [] c.tool.name = "searchLibraries" ->
         IF r.kind = "throw"
           THEN Throw(LibraryError(<<"Failed to search libraries with query",
                                     c.tool.query>> \o ErrorText(r.error),
                                   [query |-> c.tool.query]))
         ELSE IF Truthy(c.tool.limit) /\ c.tool.limit.n > 0
           THEN Return(SubSeq(r.value, 1,
                              IF Len(r.value) < c.tool.limit.n
                                THEN Len(r.value) ELSE c.tool.limit.n))
         ELSE r

----------------------------------------------------------------------------
(* Inputs *)

Commands == {"boards", "lib"}
ArgWords == {"install", "--json-output", "Not Found"}
ArgLists == UNION {[1..n -> ArgWords] : n \in 0..MaxArgs}
Options == {<<>>, [timeout |-> 5000], [cwd |-> "project", timeout |-> 120000]}

ExitCodes == 0..MaxExitCode
Stderrs == {<<>>, <<"Error:", "build failed">>, <<"Error:", "Not Found">>,
            <<"platformio", "is not recognized">>}
Stdouts == {<<>>, <<"{", "\"id\"", ":", "\"x\"", "}">>, <<"not json">>}

Lexemes == {"{", "}", ":", "\"id\"", "\"x\"", "1", " ", "not json"}
MaxBodyLen == 5
Bodies == UNION {[1..n -> Lexemes] : n \in 0..MaxBodyLen}

----------------------------------------------------------------------------
(* The state machine of one call *)

Init ==
  /\ pc = "idle"
  /\ call = <<>>
  /\ argv = <<>>
  /\ timeout = 0
  /\ bin = "pio"
  /\ procs = <<>>
  /\ outcome = NoOutcome
  /\ tasks = <<>>
  /\ dirs = {}

\* the caller invokes execute: execPioCommand starts execFileAsync('pio', ...)
Execute(command, args, options) ==
  /\ pc = "idle"
  /\ call' = [api |-> "execute", command |-> command, args |-> args,
              schema |-> "none", options |-> options]
  /\ argv' = ExecuteArgs(command, args)
  /\ timeout' = TimeoutOf(options)
  /\ bin' = "pio"
  /\ pc' = "spawning"
  /\ UNCHANGED <<procs, outcome, others>>

\* the caller invokes executeWithJsonOutput
ExecuteWithJsonOutput(command, args, schema, options) ==
  /\ pc = "idle"
  /\ call' = [api |-> "executeWithJsonOutput", command |-> command, args |-> args,
              schema |-> schema, options |-> options]
  /\ argv' = ExecuteArgs(command, JsonArgs(args))
  /\ timeout' = TimeoutOf(options)
  /\ bin' = "pio"
  /\ pc' = "spawning"
  /\ UNCHANGED <<procs, outcome, others>>

\* one execFile attempt as the log keeps it
Attempt(fate, status, stdout, stderr) ==
  [file |-> bin, args |-> argv, timeout |-> timeout,
   cwd |-> IF "cwd" \in DOMAIN call.options THEN call.options.cwd ELSE "",
   fate |-> fate, status |-> status, stdout |-> stdout, stderr |-> stderr]

\* the awaited execFileAsync settles as r: either the alias is tried next or
\* the call completes
Settled(r) ==
  /\ IF TriesAlias(bin, r)
       THEN /\ bin' = "platformio"
            /\ pc' = "spawning"
            /\ outcome' = outcome
       ELSE /\ bin' = bin
            /\ pc' = "done"
            /\ outcome' = AfterTool(call, AfterExecute(call, Settle(bin, r, argv, timeout)))
  /\ UNCHANGED <<call, argv, timeout, others>>

\* the operating system cannot start the binary
SpawnFails(errno) ==
  /\ pc = "spawning"
  /\ procs' = Append(procs, Attempt(errno, Null, <<>>, <<>>))
  /\ Settled(Rejected(SpawnError(bin, errno)))

\* the process is started
SpawnStarts ==
  /\ pc = "spawning"
  /\ procs' = Append(procs, Attempt("running", Null, <<>>, <<>>))
  /\ pc' = "running"
  /\ UNCHANGED <<call, argv, timeout, bin, outcome, others>>

Finished(fate, status, stdout, stderr) ==
  [procs EXCEPT ![Len(procs)] = Attempt(fate, status, stdout, stderr)]

\* the process exits on its own, with a status in codes and output drawn
\* from stdouts and stderrs
ProcessExits(codes, stdouts, stderrs) ==
  /\ pc = "running"
  /\ \E code \in codes, stdout \in stdouts, stderr \in stderrs :
       /\ procs' = Finished("exited", Num(code), stdout, stderr)
       /\ Settled(IF code = 0
                    THEN Resolved(stdout, stderr)
                    ELSE Rejected(ExitError(bin, argv, Num(code), FALSE, Null,
                                            stdout, stderr)))

\* the timeout elapses first: execFile kills the process with SIGTERM
ProcessTimesOut ==
  /\ pc = "running"
  /\ timeout > 0
  /\ \E stdout \in Stdouts, stderr \in Stderrs :
       /\ procs' = Finished("timeout", Null, stdout, stderr)
       /\ Settled(Rejected(ExitError(bin, argv, Null, TRUE, Str(<<"SIGTERM">>),
                                     stdout, stderr)))

\* the process writes more than maxBuffer to stdout: execFile kills it and
\* keeps the output up to the cap
ProcessOverflows ==
  /\ pc = "running"
  /\ \E stdout \in Stdouts \ {<<>>}, stderr \in Stderrs :
       /\ procs' = Finished("maxBuffer", Null, stdout, stderr)
       /\ Settled(Rejected(MaxBufferError(stdout, stderr)))

Next ==
  \/ \E c \in Commands, a \in ArgLists, o \in Options : Execute(c, a, o)
  \/ \E c \in Commands, a \in ArgLists, s \in Schemas, o \in Options :
       ExecuteWithJsonOutput(c, a, s, o)
  \/ \E e \in {"ENOENT", "EACCES"} : SpawnFails(e)
  \/ SpawnStarts
  \/ ProcessExits(ExitCodes, Stdouts, Stderrs)
  \/ ProcessTimesOut
  \/ ProcessOverflows

Spec == Init /\ [][Next]_vars

\* executeWithJsonOutput against a process that starts and exits 0 with an
\* arbitrary body on stdout
NextJson ==
  \/ \E s \in Schemas : ExecuteWithJsonOutput("boards", <<>>, s, <<>>)
  \/ SpawnStarts
  \/ ProcessExits({0}, Bodies, {<<>>})

SpecJson == Init /\ [][NextJson]_vars

----------------------------------------------------------------------------
(* Vocabulary of the properties *)

Done == pc = "done"

\* the attempts of the call in which a process was actually started
Started == {i \in DOMAIN procs : procs[i].fate \notin {"ENOENT", "EACCES"}}

Raised(class) == outcome.kind = "throw" /\ outcome.error.class = class

RaisedCode(code) ==
  /\ outcome.kind = "throw"
  /\ outcome.error.code = Str(<<code>>)

ToolNotInstalled ==
  Raised("PlatformIONotInstalledError") /\ RaisedCode("PLATFORMIO_NOT_INSTALLED")

BothNotFound ==
  /\ Len(procs) = 2
  /\ procs[1].file = "pio" /\ procs[1].fate = "ENOENT"
  /\ procs[2].file = "platformio" /\ procs[2].fate = "ENOENT"

Count(seq, word) == Cardinality({i \in DOMAIN seq : seq[i] = word})

----------------------------------------------------------------------------
(* Properties *)

\* C1: the call raises ToolNotInstalled only when the operating system
\* reported both 'pio' and 'platformio' as not found; a call in which a
\* process was started never ends in ToolNotInstalled.
C1_NotInstalledOnlyWhenBothNotFound ==
  (Done /\ ToolNotInstalled) => (BothNotFound /\ Started = {})

\* C2: when spawning fails with not-found for both 'pio' and 'platformio',
\* execute and executeWithJsonOutput raise PlatformIONotInstalledError with
\* code PLATFORMIO_NOT_INSTALLED: neither COMMAND_FAILED nor a returned result.
C2_BothNotFoundRaisesNotInstalled ==
  (Done /\ BothNotFound) =>
    /\ ToolNotInstalled
    /\ ~RaisedCode("COMMAND_FAILED")
    /\ outcome.kind # "return"

C2_Witness ==
  Done /\ BothNotFound /\ call.api = "executeWithJsonOutput" /\ ToolNotInstalled

\* C3: one call starts at most one external process: a command that was
\* started is never started a second time by the same call.
C3_AtMostOneProcessStarted == Cardinality(Started) <= 1

\* C4: when the process is killed because the timeout elapsed, the call raises
\* CommandTimeoutError whose context carries the command text (the argument
\* vector joined by spaces) and the timeout the caller supplied (300000 when
\* none was supplied); it never returns a result nor raises ToolNotInstalled.
C4_TimeoutRaisesCommandTimeout ==
  (Done /\ \E i \in DOMAIN procs : procs[i].fate = "timeout") =>
    /\ Raised("CommandTimeoutError")
    /\ RaisedCode("COMMAND_TIMEOUT")
    /\ outcome.error.context.command = Str(argv)
    /\ outcome.error.context.timeout =
         Num(IF "timeout" \in DOMAIN call.options
               THEN call.options.timeout ELSE 300000)

\* C5: when a process was started and exited on its own, execute returns
\* (does not raise) that process's stdout and stderr with its exit status as
\* exitCode.
C5_ExitedProcessYieldsItsResult ==
  \A i \in DOMAIN procs :
    (Done /\ call.api = "execute" /\ procs[i].fate = "exited") =>
      outcome = Return([stdout |-> Str(procs[i].stdout),
                        stderr |-> Str(procs[i].stderr),
                        exitCode |-> procs[i].status])

\* C6: a spawn failure that is neither not-found nor a timeout (EACCES) is
\* raised unchanged by execute, and every exitCode execute returns is a
\* number, the exit status of a process.
C6_OtherSpawnFailurePropagates ==
  (Done /\ call.api = "execute") =>
    /\ (procs[Len(procs)].fate = "EACCES" =>
          outcome = Throw(SpawnError(procs[Len(procs)].file, "EACCES")))
    /\ (outcome.kind = "return" => outcome.value.exitCode.t = "number")

\* C7: when the process wrote more than the buffer cap, execute raises; it
\* never returns a result holding the truncated output.
C7_OverflowIsRaised ==
  (Done /\ call.api = "execute"
        /\ \E i \in DOMAIN procs : procs[i].fate = "maxBuffer") =>
    outcome.kind = "throw"

\* C8: when the process exits with a non-zero status, executeWithJsonOutput
\* raises COMMAND_FAILED carrying that run's stderr and exit status, whatever
\* stdout holds.
C8_NonZeroExitRaisesCommandFailed ==
  \A i \in DOMAIN procs :
    (Done /\ call.api = "executeWithJsonOutput"
          /\ procs[i].fate = "exited" /\ procs[i].status # Num(0)) =>
      /\ RaisedCode("COMMAND_FAILED")
      /\ outcome.error.context.stderr = Str(procs[i].stderr)
      /\ outcome.error.context.exitCode = procs[i].status

IsBlank(body) == \A k \in DOMAIN body : body[k] = " "

\* C9: for a process that exits 0, executeWithJsonOutput makes exactly one of
\* four things of stdout: blank (empty or white space only) raises the
\* empty-output error, which is not INVALID_JSON; text that is no JSON raises
\* INVALID_JSON; JSON that does not conform to the schema raises PARSE_ERROR
\* carrying the mismatching fields; otherwise the schema-validated value is
\* returned ({"id":"x"} against id: string returns {id: "x"}).
C9_StdoutClassification ==
  (Done /\ call.api = "executeWithJsonOutput"
        /\ procs[Len(procs)].fate = "exited"
        /\ procs[Len(procs)].status = Num(0)) =>
    LET body == procs[Len(procs)].stdout
        json == JSONparse(body)
    IN
    /\ IsBlank(body) =>
         /\ outcome.kind = "throw"
         /\ outcome.error.message = <<"Empty output from PlatformIO command">>
         /\ ~RaisedCode("INVALID_JSON")
    /\ (~IsBlank(body) /\ ~json.ok) => RaisedCode("INVALID_JSON")
    /\ (~IsBlank(body) /\ json.ok /\ ~SchemaParse(call.schema, json.val).ok) =>
         /\ RaisedCode("PARSE_ERROR")
         /\ outcome.error.context.zodError =
              SchemaParse(call.schema, json.val).issues
         /\ Len(outcome.error.context.zodError) > 0
    /\ (~IsBlank(body) /\ json.ok /\ SchemaParse(call.schema, json.val).ok) =>
         outcome = Return(SchemaParse(call.schema, json.val).value)
    /\ (body = <<"{", "\"id\"", ":", "\"x\"", "}">> /\ call.schema = "idString") =>
         outcome = Return(Object(<< <<"id", Str(<<"x">>)>> >>))
    /\ body = <<"not json">> => RaisedCode("INVALID_JSON")
    /\ body = <<"{", "}">> => RaisedCode("PARSE_ERROR")
    /\ body \in {<<>>, <<" ">>, <<" ", " ">>} => outcome.error.code = Undefined

C9_Witness ==
  /\ Done /\ call.api = "executeWithJsonOutput" /\ call.schema = "idString"
  /\ procs[Len(procs)].fate = "exited"
  /\ procs[Len(procs)].status = Num(0)
  /\ procs[Len(procs)].stdout = <<"{", "\"id\"", ":", "1", "}">>
  /\ RaisedCode("PARSE_ERROR")

\* C10: the argument vector executeWithJsonOutput hands to the external tool
\* contains '--json-output'; the flag is appended only when the caller's args
\* lack it, so args that hold it once are handed on with exactly one occurrence.
C10_JsonFlagPresentOnce ==
  (pc # "idle" /\ call.api = "executeWithJsonOutput") =>
    /\ Count(argv, "--json-output") >= 1
    /\ Count(call.args, "--json-output") = 0 =>
         argv = <<call.command>> \o call.args \o <<"--json-output">>
    /\ Count(call.args, "--json-output") >= 1 =>
         argv = <<call.command>> \o call.args
    /\ Count(call.args, "--json-output") = 1 => Count(argv, "--json-output") = 1
    /\ \A i \in DOMAIN procs : procs[i].args = argv

C10_Witness ==
  /\ Done /\ call.api = "executeWithJsonOutput"
  /\ Count(call.args, "--json-output") = 1
  /\ Started # {}
  /\ \A i \in Started : Count(procs[i].args, "--json-output") = 1

----------------------------------------------------------------------------
(* Concurrent execute calls on the shared platformioExecutor instance.     *)
(* Every call runs execPioCommand with its own locals; the stubbed tool    *)
(* prints the working directory it was started in.                         *)

\* number of calls in flight
NumCalls == 2

CallIds == 1..NumCalls

ConcOptions == {[cwd |-> "projA", timeout |-> 5000],
                [cwd |-> "projB", timeout |-> 120000]}
ConcStderrs == {<<>>, <<"Error:", "Not Found">>}

IdleTask ==
  [pc |-> "idle", call |-> <<>>, argv |-> <<>>, timeout |-> 0, bin |-> "pio",
   procs |-> <<>>, outcome |-> NoOutcome]

InitConc ==
  /\ pc = "idle"
  /\ call = <<>>
  /\ argv = <<>>
  /\ timeout = 0
  /\ bin = "pio"
  /\ procs = <<>>
  /\ outcome = NoOutcome
  /\ tasks = [id \in CallIds |-> IdleTask]
  /\ dirs = {}

\* a module-level timeout that every call overwrites: the latest call's value
CallTimeout_ModuleLevel(ts, id) ==
  LET begun == {j \in DOMAIN ts : ts[j].pc # "idle"}
  IN ts[CHOOSE j \in begun : \A k \in begun : k <= j].timeout

\* the local `const timeout` of the call id
CallTimeout(ts, id) == ts[id].timeout

\* the execFile attempt of call id as its log keeps it
TaskAttempt(id, fate, status, stdout, stderr) ==
  [file |-> tasks[id].bin, args |-> tasks[id].argv,
   timeout |-> CallTimeout(tasks, id),
   cwd |-> tasks[id].call.options.cwd,
   fate |-> fate, status |-> status, stdout |-> stdout, stderr |-> stderr]

\* call id is execute(command, args, options)
TaskExecute(id, command, args, options) ==
  /\ tasks[id].pc = "idle"
  /\ tasks' = [tasks EXCEPT ![id] =
       [pc |-> "spawning",
        call |-> [api |-> "execute", command |-> command, args |-> args,
                  schema |-> "none", options |-> options],
        argv |-> ExecuteArgs(command, args),
        timeout |-> TimeoutOf(options),
        bin |-> "pio",
        procs |-> <<>>,
        outcome |-> NoOutcome]]
  /\ UNCHANGED <<pc, call, argv, timeout, bin, procs, outcome, dirs>>

\* the execFileAsync awaited by call id settles as r, logged as entry
TaskSettled(id, r, log) ==
  /\ tasks' = [tasks EXCEPT ![id] =
       IF TriesAlias(tasks[id].bin, r)
         THEN [tasks[id] EXCEPT !.procs = log, !.bin = "platformio",
                                !.pc = "spawning"]
         ELSE [tasks[id] EXCEPT !.procs = log, !.pc = "done",
                 !.outcome = AfterExecute(tasks[id].call,
                               Settle(tasks[id].bin, r, tasks[id].argv,
                                      CallTimeout(tasks, id)))]]
  /\ UNCHANGED <<pc, call, argv, timeout, bin, procs, outcome, dirs>>

TaskSpawnFails(id, errno) ==
  /\ tasks[id].pc = "spawning"
  /\ TaskSettled(id, Rejected(SpawnError(tasks[id].bin, errno)),
                 Append(tasks[id].procs, TaskAttempt(id, errno, Null, <<>>, <<>>)))

TaskSpawnStarts(id) ==
  /\ tasks[id].pc = "spawning"
  /\ tasks' = [tasks EXCEPT ![id] =
       [tasks[id] EXCEPT !.pc = "running",
          !.procs = Append(tasks[id].procs,
                           TaskAttempt(id, "running", Null, <<>>, <<>>))]]
  /\ UNCHANGED <<pc, call, argv, timeout, bin, procs, outcome, dirs>>

TaskFinished(id, fate, status, stdout, stderr) ==
  [tasks[id].procs EXCEPT ![Len(tasks[id].procs)] =
     TaskAttempt(id, fate, status, stdout, stderr)]

\* the process of call id exits, having printed its working directory
TaskProcessExits(id) ==
  /\ tasks[id].pc = "running"
  /\ \E code \in {0, 1}, stderr \in ConcStderrs :
       LET stdout == <<tasks[id].call.options.cwd>> IN
       TaskSettled(id,
         IF code = 0
           THEN Resolved(stdout, stderr)
           ELSE Rejected(ExitError(tasks[id].bin, tasks[id].argv, Num(code),
                                   FALSE, Null, stdout, stderr)),
         TaskFinished(id, "exited", Num(code), stdout, stderr))

\* the timeout of call id elapses first
TaskProcessTimesOut(id) ==
  /\ tasks[id].pc = "running"
  /\ CallTimeout(tasks, id) > 0
  /\ \E stderr \in ConcStderrs :
       TaskSettled(id,
         Rejected(ExitError(tasks[id].bin, tasks[id].argv, Null, TRUE,
                            Str(<<"SIGTERM">>), <<>>, stderr)),
         TaskFinished(id, "timeout", Null, <<>>, stderr))

NextConc ==
  \/ \E id \in CallIds, o \in ConcOptions : TaskExecute(id, "run", <<>>, o)
  \/ \E id \in CallIds : TaskSpawnFails(id, "ENOENT")
  \/ \E id \in CallIds : TaskSpawnStarts(id)
  \/ \E id \in CallIds : TaskProcessExits(id)
  \/ \E id \in CallIds : TaskProcessTimesOut(id)

SpecConc == InitConc /\ [][NextConc]_vars

\* the rejection or resolution execFile delivered for a logged attempt
Delivered(p) ==
  CASE p.fate = "ENOENT" -> Rejected(SpawnError(p.file, "ENOENT"))
    [] p.fate = "exited" /\ p.status = Num(0) -> Resolved(p.stdout, p.stderr)
    [] p.fate = "exited" /\ p.status # Num(0) ->
         Rejected(ExitError(p.file, p.args, p.status, FALSE, Null,
                            p.stdout, p.stderr))
    [] p.fate = "timeout" ->
         Rejected(ExitError(p.file, p.args, Null, TRUE, Str(<<"SIGTERM">>),
                            p.stdout, p.stderr))

\* C11: in every interleaving of concurrent execute calls, each attempt of a
\* call runs with that call's own argument vector, working directory and
\* timeout, and the outcome of a finished call is what its own last process
\* delivered, handled with its own arguments and timeout: a returned stdout
\* is the working directory of that very call.
C11_CallsDoNotInterfere ==
  \A id \in DOMAIN tasks :
    LET t == tasks[id] IN
    /\ \A i \in DOMAIN t.procs :
         /\ t.procs[i].args = <<t.call.command>> \o t.call.args
         /\ t.procs[i].cwd = t.call.options.cwd
         /\ t.procs[i].timeout = t.call.options.timeout
    /\ t.pc = "done" =>
         LET last == t.procs[Len(t.procs)] IN
         /\ t.outcome = Settle(last.file, Delivered(last),
                               <<t.call.command>> \o t.call.args,
                               t.call.options.timeout)
         /\ t.outcome.kind = "return" =>
              t.outcome.value.stdout = Str(<<t.call.options.cwd>>)

C11_Witness ==
  /\ \A id \in DOMAIN tasks : tasks[id].pc = "done"
  /\ Len(tasks) >= 2
  /\ tasks[1].call.options.cwd # tasks[2].call.options.cwd
  /\ tasks[1].outcome.kind = "return"
  /\ tasks[2].outcome.kind = "throw"
  /\ tasks[2].outcome.error.class = "CommandTimeoutError"

----------------------------------------------------------------------------
(* utils/validation.ts: the allow-list validators.  A string is the        *)
(* sequence of its characters and a regular expression is matched          *)
(* character by character.                                                 *)

LowerCase == {"a", "b", "c", "d", "e", "f", "g", "h", "i", "j", "k", "l", "m",
              "n", "o", "p", "q", "r", "s", "t", "u", "v", "w", "x", "y", "z"}
UpperCase == {"A", "B", "C", "D", "E", "F", "G", "H", "I", "J", "K", "L", "M",
              "N", "O", "P", "Q", "R", "S", "T", "U", "V", "W", "X", "Y", "Z"}
Digits == {"0", "1", "2", "3", "4", "5", "6", "7", "8", "9"}
\* \s: space, tab, line feed, carriage return, form feed, ...
WhiteSpace == {" ", "\t", "\n", "\r", "\f"}

\* /^[class]+$/.test(s): without the m flag $ is the end of the input
AllOf(s, class) == Len(s) > 0 /\ \A i \in DOMAIN s : s[i] \in class

\* s.startsWith(prefix) and what follows the prefix
StartsWith(s, prefix) == Len(prefix) <= Len(s) /\ SubSeq(s, 1, Len(prefix)) = prefix
After(s, prefix) == SubSeq(s, Len(prefix) + 1, Len(s))

BoardIdChars == LowerCase \cup UpperCase \cup Digits \cup {"_", "-", "."}

\* the length test left out
validateBoardId_NoLengthTest(boardId) ==
  IF boardId = <<>> THEN FALSE
  ELSE AllOf(boardId, BoardIdChars)

validateBoardId(boardId) ==
  IF boardId = <<>> THEN FALSE
  ELSE IF Len(boardId) < 2 \/ Len(boardId) > 50 THEN FALSE
  ELSE AllOf(boardId, BoardIdChars)

LibraryNameChars ==
  LowerCase \cup UpperCase \cup Digits \cup {"_", "-", ".", "@"} \cup WhiteSpace

validateLibraryName(name) ==
  IF name = <<>> THEN FALSE
  ELSE IF Len(name) < 1 \/ Len(name) > 100 THEN FALSE
  ELSE AllOf(name, LibraryNameChars)

validateFramework(framework) ==
  IF framework = <<>> THEN FALSE
  ELSE /\ AllOf(framework, LowerCase \cup Digits \cup {"-"})
       /\ Len(framework) > 0
       /\ Len(framework) <= 30

validateEnvironmentName(env) ==
  IF env = <<>> THEN FALSE
  ELSE /\ AllOf(env, LowerCase \cup UpperCase \cup Digits \cup {"_", "-"})
       /\ Len(env) > 0
       /\ Len(env) <= 50

VersionPrefixChars == {"^", "~", ">", "<", "="}
VersionSuffixChars == LowerCase \cup UpperCase \cup Digits \cup {"-", "+", "."}

\* s matches (\.\d+){n}
RECURSIVE DotNumbers(_, _)
DotNumbers(s, n) ==
  IF n = 0 THEN s = <<>>
  ELSE \E k \in 2..Len(s) :
         /\ s[1] = "."
         /\ AllOf(SubSeq(s, 2, k), Digits)
         /\ DotNumbers(SubSeq(s, k + 1, Len(s)), n - 1)

\* /^[\^~><=]*\d+(\.\d+){0,2}([a-zA-Z0-9\-\+\.]*)?$/.test(s)
VersionPattern(s) ==
  \E i \in 0..Len(s) :
    /\ \A m \in 1..i : s[m] \in VersionPrefixChars
    /\ \E j \in (i + 1)..Len(s) :
         /\ AllOf(SubSeq(s, i + 1, j), Digits)
         /\ \E k \in j..Len(s) :
              /\ \A m \in (k + 1)..Len(s) : s[m] \in VersionSuffixChars
              /\ \E n \in 0..2 : DotNumbers(SubSeq(s, j + 1, k), n)

validateVersion(version) ==
  IF version = <<>> THEN FALSE
  ELSE VersionPattern(version) /\ Len(version) <= 50

Dev == <<"/", "d", "e", "v", "/">>
Tty == <<"t", "t", "y">>
Cu == <<"c", "u", ".">>
Com == <<"C", "O", "M">>
TtyKinds == {<<"U", "S", "B">>, <<"A", "C", "M">>, <<"S">>}

\* /^\/dev\/(tty(USB|ACM|S)\d+|cu\.[a-zA-Z0-9_\-\.]+)$/.test(port)
unixPattern(port) ==
  /\ StartsWith(port, Dev)
  /\ LET name == After(port, Dev) IN
     \/ /\ StartsWith(name, Tty)
        /\ \E kind \in TtyKinds :
             /\ StartsWith(After(name, Tty), kind)
             /\ AllOf(After(After(name, Tty), kind), Digits)
     \/ /\ StartsWith(name, Cu)
        /\ AllOf(After(name, Cu), BoardIdChars)

\* the pattern without its end anchor
windowsPattern_Unanchored(port) ==
  /\ StartsWith(port, Com)
  /\ \E n \in 1..3 : /\ n <= Len(After(port, Com))
                     /\ AllOf(SubSeq(After(port, Com), 1, n), Digits)

\* /^COM\d{1,3}$/.test(port)
windowsPattern(port) ==
  /\ StartsWith(port, Com)
  /\ AllOf(After(port, Com), Digits)
  /\ Len(After(port, Com)) <= 3

validateSerialPort(port) ==
  IF port = <<>> THEN FALSE
  ELSE unixPattern(port) \/ windowsPattern(port)

validBaudRates == {300, 1200, 2400, 4800, 9600, 14400, 19200, 28800,
                   38400, 57600, 115200, 230400, 460800, 921600}

\* the range without its upper end
validateBaudRate_NoUpperEnd(baud) ==
  IF ~Truthy(baud) \/ baud.t # "number" \/ ~isInteger(baud) THEN FALSE
  ELSE baud.n \in validBaudRates \/ baud.n > 0

validateBaudRate(baud) ==
  IF ~Truthy(baud) \/ baud.t # "number" \/ ~isInteger(baud) THEN FALSE
  ELSE \/ baud.n \in validBaudRates
       \/ (baud.n > 0 /\ baud.n <= 2000000)

----------------------------------------------------------------------------
(* utils/validation.ts: validateProjectPath.  A path is the sequence of    *)
(* its characters; path.resolve and path.normalize are the posix ones.     *)

\* longest path tried
MaxPathLen == 7

PathChars == {"/", ".", "a", " "}
Paths == UNION {[1..n -> PathChars] : n \in 0..MaxPathLen}
\* process.cwd()
Cwds == {<<"/", "w">>, <<"/">>}

Error(message) == [class |-> "Error", message |-> message]

\* String.prototype.includes on characters
includesChars(s, needle) ==
  \E i \in 1..(Len(s) - Len(needle) + 1) :
    SubSeq(s, i, i + Len(needle) - 1) = needle

RECURSIVE split(_, _)
split(s, sep) ==
  IF \A k \in DOMAIN s : s[k] # sep THEN <<s>>
  ELSE LET i == CHOOSE j \in DOMAIN s :
                  s[j] = sep /\ \A k \in 1..(j - 1) : s[k] # sep
       IN <<SubSeq(s, 1, i - 1)>> \o split(SubSeq(s, i + 1, Len(s)), sep)

RECURSIVE join(_, _)
join(segs, sep) ==
  IF segs = <<>> THEN <<>>
  ELSE IF Len(segs) = 1 THEN segs[1]
  ELSE segs[1] \o <<sep>> \o join(Tail(segs), sep)

DotDot == <<".", ".">>

\* normalizeString of node's path module: '' and '.' segments are dropped,
\* '..' removes the segment before it, or is kept above the root of a
\* relative path
RECURSIVE normalizeString(_, _, _)
normalizeString(segs, res, allowAboveRoot) ==
  IF segs = <<>> THEN res
  ELSE LET seg == Head(segs) IN
    normalizeString(Tail(segs),
      IF seg = <<>> \/ seg = <<".">> THEN res
      ELSE IF seg = DotDot
        THEN IF res # <<>> /\ res[Len(res)] # DotDot
               THEN SubSeq(res, 1, Len(res) - 1)
             ELSE IF allowAboveRoot THEN Append(res, DotDot)
             ELSE res
      ELSE Append(res, seg),
      allowAboveRoot)

isAbsolute(p) == Len(p) > 0 /\ p[1] = "/"

\* path.resolve(p) in the working directory cwd
resolve(cwd, p) ==
  LET full == IF isAbsolute(p) THEN p
              ELSE IF p = <<>> THEN cwd
              ELSE cwd \o <<"/">> \o p
  IN <<"/">> \o join(normalizeString(split(full, "/"), <<>>, FALSE), "/")

\* path.normalize(p)
normalize(p) ==
  IF p = <<>> THEN <<".">>
  ELSE LET trailing == p[Len(p)] = "/"
           body == join(normalizeString(split(p, "/"), <<>>, ~isAbsolute(p)), "/")
       IN IF body = <<>>
            THEN IF isAbsolute(p) THEN <<"/">>
                 ELSE IF trailing THEN <<".", "/">> ELSE <<".">>
          ELSE (IF isAbsolute(p) THEN <<"/">> ELSE <<>>) \o body
               \o (IF trailing THEN <<"/">> ELSE <<>>)

PathRequired == Error(<<"Project path is required and must be a string">>)
PathTraversal == Error(<<"Invalid project path: path traversal detected">>)

validateProjectPath(cwd, projectPath) ==
  IF projectPath = <<>> THEN Throw(PathRequired)
  ELSE LET sanitized == trim(projectPath)
           absolutePath == resolve(cwd, sanitized)
           normalizedPath == normalize(absolutePath)
       IN IF includesChars(normalizedPath, DotDot)
             \/ normalizedPath # absolutePath
            THEN Throw(PathTraversal)
          ELSE Return(Str(absolutePath))

\* one call of validateProjectPath in a process whose working directory is cwd
ValidateProjectPath(cwd, projectPath) ==
  /\ pc = "idle"
  /\ pc' = "done"
  /\ call' = [api |-> "validateProjectPath", input |-> projectPath, cwd |-> cwd]
  /\ outcome' = validateProjectPath(cwd, projectPath)
  /\ UNCHANGED <<argv, timeout, bin, procs, others>>

NextPath ==
  /\ pc = "idle"
  /\ \E cwd \in Cwds, p \in Paths : ValidateProjectPath(cwd, p)

SpecPath == Init /\ [][NextPath]_vars

PathValidated == pc = "done" /\ call.api = "validateProjectPath"

\* the segments of the path as given, white space around the path aside
GivenSegments(p) == split(trim(p), "/")

HasParentSegment(p) ==
  \E i \in DOMAIN GivenSegments(p) : GivenSegments(p)[i] = DotDot

\* the named segments: the given ones without the empty and '.' ones
NamedSegments(p) ==
  SelectSeq(GivenSegments(p), LAMBDA seg : seg # <<>> /\ seg # <<".">>)

EndsWith(s, t) ==
  Len(t) <= Len(s) /\ SubSeq(s, Len(s) - Len(t) + 1, Len(s)) = t

\* C12: validateProjectPath raises the path-traversal error for every input
\* with a parent-directory segment '..'; it never returns the path with the
\* '..' segments resolved away.
C12_ParentSegmentRaisesTraversal ==
  PathValidated /\ HasParentSegment(call.input)
    => outcome = Throw(PathTraversal)

\* C13: for every non-empty path without a parent-directory segment, names
\* that merely contain two dots included, validateProjectPath returns an
\* absolute, normalized path that ends with the given segments.
C13_PlainPathReturnsAbsolute ==
  PathValidated /\ call.input # <<>> /\ ~HasParentSegment(call.input)
    => /\ outcome.kind = "return"
       /\ isAbsolute(outcome.value.s)
       /\ normalize(outcome.value.s) = outcome.value.s
       /\ EndsWith(split(outcome.value.s, "/"), NamedSegments(call.input))

----------------------------------------------------------------------------
(* The validators applied to bounded sets of strings: every string of up   *)
(* to MaxCoreLen characters, alone and padded up to the length limits,     *)
(* and for the serial port every string of up to MaxChunks chunks.         *)

\* longest string before padding
MaxCoreLen == 2
\* most chunks in a serial port
MaxChunks == 4

TextChars == {"a", "Z", "0", "_", "-", ".", "@", " ", "\t", ";", "^", "=", "+"}
Cores == UNION {[1..n -> TextChars] : n \in 0..MaxCoreLen}

Pad(n) == [i \in 1..n |-> "a"]
Padded(lens) == {core \o Pad(n) : core \in Cores, n \in lens}

\* lengths around the limits 50, 100 and 30
BoardIds == Padded({0, 48, 49})
LibraryNames == Padded({0, 98, 99})
Frameworks == Padded({0, 28, 29})
EnvironmentNames == Padded({0, 48, 49})
Versions ==
  Padded({0, 48, 49})
    \cup {<<"1", ".", "2", ".", "3">>, <<"1", ".", "2", ".", "3", ".", "4">>,
          <<"^", "1", ".", "0">>, <<">", "=", "1", ".", "0">>,
          <<"^", "^", "1">>, <<"1", ".", "0", "-", "r", "c", "1">>,
          <<"v", "1">>, <<"1", ".">>}

RECURSIVE Flatten(_)
Flatten(chunks) ==
  IF chunks = <<>> THEN <<>> ELSE Head(chunks) \o Flatten(Tail(chunks))

PortChunks == {Dev, Tty, <<"U", "S", "B">>, <<"S">>, Cu, Com,
               <<"1">>, <<"1", "1">>, <<"/">>, <<" ">>, <<"a">>}
Ports ==
  {Flatten(chunks) : chunks \in UNION {[1..n -> PortChunks] : n \in 0..MaxChunks}}
    \cup {Dev \o Tty \o <<"A", "C", "M", "0">>,
          Dev \o Tty \o <<"U", "S", "B", "0", "\n">>,
          Dev \o Cu \o <<"u", "s", "b", "-", "1", ".", "_">>,
          Com \o <<"1", "\n">>, <<"c", "o", "m", "1">>}

\* one call of a validator
Validate(api, input, result) ==
  /\ pc = "idle"
  /\ pc' = "done"
  /\ call' = [api |-> api, input |-> input]
  /\ outcome' = Return(Bool(result))
  /\ UNCHANGED <<argv, timeout, bin, procs, others>>

ValidateBoardId(s) == Validate("validateBoardId", s, validateBoardId(s))
ValidateLibraryName(s) == Validate("validateLibraryName", s, validateLibraryName(s))
ValidateFramework(s) == Validate("validateFramework", s, validateFramework(s))
ValidateEnvironmentName(s) ==
  Validate("validateEnvironmentName", s, validateEnvironmentName(s))
ValidateVersion(s) == Validate("validateVersion", s, validateVersion(s))
ValidateSerialPort(s) == Validate("validateSerialPort", s, validateSerialPort(s))

NextValidators ==
  /\ pc = "idle"
  /\ \/ \E s \in BoardIds : ValidateBoardId(s)
     \/ \E s \in LibraryNames : ValidateLibraryName(s)
     \/ \E s \in Frameworks : ValidateFramework(s)
     \/ \E s \in EnvironmentNames : ValidateEnvironmentName(s)
     \/ \E s \in Versions : ValidateVersion(s)
     \/ \E s \in Ports : ValidateSerialPort(s)

SpecValidators == Init /\ [][NextValidators]_vars

Validated(api) == pc = "done" /\ call.api = api
Accepted == outcome = Return(Bool(TRUE))

AllowListValidators ==
  {"validateBoardId", "validateLibraryName", "validateFramework",
   "validateEnvironmentName", "validateVersion"}

\* C15: no string accepted by an allow-list validator begins with '-', so
\* none can be taken for an option when placed in the argument vector.
C15_AcceptedNeverStartsWithDash ==
  pc = "done" /\ call.api \in AllowListValidators /\ Accepted
    => call.input[1] # "-"

Letters == LowerCase \cup UpperCase

C18_LibraryNameAcceptedIff ==
  Validated("validateLibraryName") =>
    (Accepted <=>
       /\ Len(call.input) \in 1..100
       /\ \A i \in DOMAIN call.input :
            call.input[i] \in Letters \cup Digits \cup {" ", "_", "-", ".", "@"})

\* a range prefix of the specification
RangePrefixes == {<<>>, <<"^">>, <<"~">>, <<">">>, <<"<">>, <<">", "=">>, <<"<", "=">>}

\* one to three numeric components separated by dots
NumericComponents(s) ==
  /\ s # <<>>
  /\ Len(split(s, ".")) \in 1..3
  /\ \A i \in DOMAIN split(s, ".") : AllOf(split(s, ".")[i], Digits)

\* a pre-release or build suffix: any run of suffix characters that does not
\* go on as a further numeric component
VersionSuffix(s) ==
  \/ s = <<>>
  \/ /\ AllOf(s, VersionSuffixChars)
     /\ s[1] \notin Digits
     /\ ~(s[1] = "." /\ Len(s) >= 2 /\ s[2] \in Digits)

\* C19: validateVersion(s) is true exactly when s has at most 50 characters
\* and is at most one range prefix (^ ~ > < >= <=), then one to three
\* dot-separated numeric components, then an optional pre-release/build
\* suffix; repeated or other prefixes and a fourth component are rejected.
C19_VersionAcceptedIff ==
  Validated("validateVersion") =>
    (Accepted <=>
       /\ Len(call.input) <= 50
       /\ \E prefix \in RangePrefixes, j \in 0..Len(call.input) :
            /\ StartsWith(call.input, prefix)
            /\ j >= Len(prefix)
            /\ NumericComponents(SubSeq(call.input, Len(prefix) + 1, j))
            /\ VersionSuffix(SubSeq(call.input, j + 1, Len(call.input))))

\* C20: validateSerialPort(s) is true exactly when s is '/dev/ttyUSB',
\* '/dev/ttyACM' or '/dev/ttyS' followed by one or more digits, or '/dev/cu.'
\* followed by a non-empty name over [A-Za-z0-9_.-], or 'COM' followed by
\* one to three digits; anything before, after or in between is rejected.
C20_SerialPortAcceptedIff ==
  Validated("validateSerialPort") =>
    (Accepted <=>
       \E n \in 1..Len(call.input) :
         LET head == SubSeq(call.input, 1, n)
             rest == SubSeq(call.input, n + 1, Len(call.input))
         IN \/ /\ head \in {Dev \o Tty \o <<"U", "S", "B">>,
                            Dev \o Tty \o <<"A", "C", "M">>,
                            Dev \o Tty \o <<"S">>}
               /\ Len(rest) >= 1
               /\ \A i \in DOMAIN rest : rest[i] \in Digits
            \/ /\ head = Dev \o Cu
               /\ Len(rest) >= 1
               /\ \A i \in DOMAIN rest :
                    rest[i] \in Letters \cup Digits \cup {"_", ".", "-"}
            \/ /\ head = Com
               /\ Len(rest) \in 1..3
               /\ \A i \in DOMAIN rest : rest[i] \in Digits)

C20_Witness ==
  /\ Validated("validateSerialPort")
  /\ call.input = Com \o <<"1", "1", "1", "1">>
  /\ outcome = Return(Bool(FALSE))

----------------------------------------------------------------------------
(* tools/monitor.ts: startMonitor.  The command string is the sequence of  *)
(* its pieces: the literal pieces of the template as they stand, and the   *)
(* characters of every interpolated value.                                 *)

\* longest project directory tried
MaxDirLen == 3

DirChars == {"a", "/", ".", ";", "$"}
MonitorDirs ==
  {Undefined} \cup {Str(d) : d \in UNION {[1..n -> DirChars] : n \in 0..MaxDirLen}}
MonitorPorts ==
  {Undefined, Str(<<>>), Str(Com \o <<"1">>), Str(Dev \o Tty \o <<"S", "0">>),
   Str(Com \o <<"1", ";", "a">>)}
MonitorBauds ==
  {Undefined, NaN, Num(0), Num(9600), Num(115200), Num(-1), Num(3000000)}

\* String(n) of an integer
RECURSIVE DigitsOf(_)
DigitsOf(n) ==
  LET digit == CHOOSE d \in Digits :
                 d = (CASE n % 10 = 0 -> "0" [] n % 10 = 1 -> "1"
                        [] n % 10 = 2 -> "2" [] n % 10 = 3 -> "3"
                        [] n % 10 = 4 -> "4" [] n % 10 = 5 -> "5"
                        [] n % 10 = 6 -> "6" [] n % 10 = 7 -> "7"
                        [] n % 10 = 8 -> "8" [] OTHER -> "9")
  IN IF n < 10 THEN <<digit>> ELSE Append(DigitsOf(n \div 10), digit)

NumberToString(n) == IF n < 0 THEN <<"-">> \o DigitsOf(-n) ELSE DigitsOf(n)

\* the command built from the arguments as given
MonitorCommand(cwd, port, baud, projectDir) ==
  LET base == <<"pio device monitor">>
      withPort == IF Truthy(port) THEN base \o <<" --port ">> \o port.s ELSE base
      withBaud == IF Truthy(baud)
                    THEN withPort \o <<" --baud ">> \o NumberToString(baud.n)
                  ELSE withPort
  IN IF Truthy(projectDir)
       THEN <<"cd ">> \o projectDir.s \o <<" && ">> \o withBaud
     ELSE withBaud

startMonitor(cwd, port, baud, projectDir) ==
  IF Truthy(port) /\ ~validateSerialPort(port.s)
    THEN Throw(PlatformIOError(<<"Invalid serial port:">> \o port.s,
                               Str(<<"INVALID_PORT">>), [port |-> port]))
  ELSE IF Truthy(baud) /\ ~validateBaudRate(baud)
    THEN Throw(PlatformIOError(<<"Invalid baud rate:">> \o NumberToString(baud.n),
                               Str(<<"INVALID_BAUD">>), [baud |-> baud]))
  ELSE IF Truthy(projectDir)
          /\ validateProjectPath(cwd, projectDir.s).kind = "throw"
    THEN Throw(PlatformIOError(
                 <<"Invalid project directory:", "Error:">>
                   \o validateProjectPath(cwd, projectDir.s).error.message,
                 Str(<<"INVALID_PATH">>), [projectDir |-> projectDir]))
  ELSE LET command == MonitorCommand(cwd, port, baud, projectDir) IN
       Return([success |-> TRUE,
               message |-> <<"Serial monitor requires interactive terminal access.">>
                             \o command \o <<"Press Ctrl+C to exit the monitor.">>,
               command |-> command])

StartMonitor(cwd, port, baud, projectDir) ==
  /\ pc = "idle"
  /\ pc' = "done"
  /\ call' = [api |-> "startMonitor", cwd |-> cwd, port |-> port, baud |-> baud,
              projectDir |-> projectDir]
  /\ outcome' = startMonitor(cwd, port, baud, projectDir)
  /\ UNCHANGED <<argv, timeout, bin, procs, others>>

NextMonitor ==
  /\ pc = "idle"
  /\ \E cwd \in Cwds, port \in MonitorPorts, baud \in MonitorBauds,
        projectDir \in MonitorDirs : StartMonitor(cwd, port, baud, projectDir)

SpecMonitor == Init /\ [][NextMonitor]_vars

\* ; & | $ ( ) and the backquote, written by its name
ShellMeta == {";", "&", "|", "backquote", "$", "(", ")"}

\* C14: a command string produced by startMonitor holds no shell
\* metacharacter taken from its arguments: the port is there only if
\* validateSerialPort accepted it, the baud rate only if validateBaudRate
\* accepted it, and the project directory only in the absolute form that
\* validateProjectPath returned.
C14_MonitorCommandHoldsValidatedValues ==
  pc = "done" /\ call.api = "startMonitor" /\ outcome.kind = "return" =>
    LET command == outcome.value.command IN
    /\ \A i \in DOMAIN command : command[i] \notin ShellMeta
    /\ Truthy(call.port) => validateSerialPort(call.port.s)
    /\ Truthy(call.baud) => validateBaudRate(call.baud)
    /\ Truthy(call.projectDir) =>
         StartsWith(command,
           <<"cd ">> \o validateProjectPath(call.cwd, call.projectDir.s).value.s
             \o <<" && ">>)

----------------------------------------------------------------------------
(* The tools that validate their arguments: getBoardInfo (tools/boards),   *)
(* initProject (tools/projects) and installLibrary, uninstallLibrary,      *)
(* listInstalledLibraries, updateLibraries (tools/libraries).  An argument *)
(* is a word; Chars gives its characters to the validators.  '' stands for *)
(* an optional argument left out.  No platformOptions are given.           *)

BoardWords == {"", "u", "uno", "--help", "uno;ls"}
FrameworkWords == {"", "arduino", "Arduino"}
LibraryWords == {"", "Servo", "Servo;ls"}
VersionWords == {"", "1.0", "latest"}
DirWords == {"", "proj", "../up", "my..dir"}

Chars(w) ==
  CASE w = "" -> <<>>
    [] w = "u" -> <<"u">>
    [] w = "uno" -> <<"u", "n", "o">>
    [] w = "--help" -> <<"-", "-", "h", "e", "l", "p">>
    [] w = "uno;ls" -> <<"u", "n", "o", ";", "l", "s">>
    [] w = "arduino" -> <<"a", "r", "d", "u", "i", "n", "o">>
    [] w = "Arduino" -> <<"A", "r", "d", "u", "i", "n", "o">>
    [] w = "Servo" -> <<"S", "e", "r", "v", "o">>
    [] w = "Servo;ls" -> <<"S", "e", "r", "v", "o", ";", "l", "s">>
    [] w = "1.0" -> <<"1", ".", "0">>
    [] w = "latest" -> <<"l", "a", "t", "e", "s", "t">>
    [] w = "proj" -> <<"p", "r", "o", "j">>
    [] w = "../up" -> <<".", ".", "/", "u", "p">>
    [] w = "my..dir" -> <<"m", "y", ".", ".", "d", "i", "r">>

\* process.cwd() of the server
ToolCwd == <<"/", "w">>

\* `${libraryName}@${version}`
LibrarySpec(libraryName, version) ==
  IF version = "" THEN libraryName
  ELSE CASE libraryName = "Servo" /\ version = "1.0" -> "Servo@1.0"

\* `framework=${framework}`
FrameworkOption(framework) ==
  CASE framework = "arduino" -> "framework=arduino"

\* execOptions: the timeout, and the validated path as cwd when a project
\* directory is given
ExecOptions(ms, projectDir) ==
  IF projectDir # ""
    THEN [cwd |-> validateProjectPath(ToolCwd, Chars(projectDir)).value.s,
          timeout |-> ms]
    ELSE [timeout |-> ms]

\* validateProjectPath(projectDir) raises inside the try block
PathRaises(projectDir) ==
  projectDir # "" /\ validateProjectPath(ToolCwd, Chars(projectDir)).kind = "throw"

PathError(projectDir) == validateProjectPath(ToolCwd, Chars(projectDir)).error

\* what the tool raises before it calls the executor; NoOutcome when it goes on
getBoardInfoChecks(t) ==
  IF ~validateBoardId(Chars(t.boardId)) THEN Throw(BoardNotFoundError(t.boardId))
  ELSE NoOutcome

\* initProject with the board id left unchecked
initProjectChecks_NoBoardCheck(t) ==
  IF t.framework # "" /\ ~validateFramework(Chars(t.framework))
    THEN Throw(ProjectInitError(<<"Invalid framework:", t.framework>>,
                                [framework |-> t.framework]))
  ELSE IF validateProjectPath(ToolCwd, Chars(t.projectDir)).kind = "throw"
    THEN Throw(ProjectInitError(<<"Invalid project directory:">>
                                  \o ErrorText(PathError(t.projectDir)),
                                [projectDir |-> t.projectDir]))
  ELSE NoOutcome

initProjectChecks(t) ==
  IF ~validateBoardId(Chars(t.board))
    THEN Throw(ProjectInitError(<<"Invalid board ID:", t.board>>,
                                [board |-> t.board]))
  ELSE IF t.framework # "" /\ ~validateFramework(Chars(t.framework))
    THEN Throw(ProjectInitError(<<"Invalid framework:", t.framework>>,
                                [framework |-> t.framework]))
  ELSE IF validateProjectPath(ToolCwd, Chars(t.projectDir)).kind = "throw"
    THEN Throw(ProjectInitError(<<"Invalid project directory:">>
                                  \o ErrorText(PathError(t.projectDir)),
                                [projectDir |-> t.projectDir]))
  ELSE NoOutcome

installLibraryChecks(t) ==
  IF ~validateLibraryName(Chars(t.libraryName))
    THEN Throw(LibraryError(<<"Invalid library name:", t.libraryName>>,
                            [libraryName |-> t.libraryName]))
  ELSE IF t.version # "" /\ ~validateVersion(Chars(t.version))
    THEN Throw(LibraryError(<<"Invalid version format:", t.version>>,
                            [version |-> t.version]))
  ELSE IF PathRaises(t.projectDir)
    THEN Throw(LibraryError(<<"Failed to install library", t.libraryName>>
                              \o ErrorText(PathError(t.projectDir)), t))
  ELSE NoOutcome

uninstallLibraryChecks(t) ==
  IF ~validateLibraryName(Chars(t.libraryName))
    THEN Throw(LibraryError(<<"Invalid library name:", t.libraryName>>,
                            [libraryName |-> t.libraryName]))
  ELSE IF PathRaises(t.projectDir)
    THEN Throw(LibraryError(<<"Failed to uninstall library", t.libraryName>>
                              \o ErrorText(PathError(t.projectDir)), t))
  ELSE NoOutcome

\* the error of validateProjectPath is no PlatformIOError: the catch block
\* of listInstalledLibraries wraps it
listInstalledLibrariesChecks(t) ==
  IF PathRaises(t.projectDir)
    THEN Throw(LibraryError(<<"Failed to list installed libraries">>
                              \o ErrorText(PathError(t.projectDir)), t))
  ELSE NoOutcome

updateLibrariesChecks(t) ==
  IF PathRaises(t.projectDir)
    THEN Throw(LibraryError(<<"Failed to update libraries:">>
                              \o ErrorText(PathError(t.projectDir)), t))
  ELSE NoOutcome

\* the tool raises: its promise rejects with nothing started
ToolRaises(t, raised) ==
  /\ pc' = "done"
  /\ call' = [api |-> "none", tool |-> t]
  /\ outcome' = raised
  /\ UNCHANGED <<argv, timeout, bin, procs, others>>

\* the executor call of a tool
ToolCall(t, api, command, args, schema, options) ==
  [api |-> api, command |-> command, args |-> args, schema |-> schema,
   options |-> options, tool |-> t]

\* the tool calls the executor with c
ToolExecutes(c) ==
  /\ pc' = "spawning"
  /\ call' = c
  /\ argv' = ExecuteArgs(c.command,
                         IF c.api = "execute" THEN c.args ELSE JsonArgs(c.args))
  /\ timeout' = TimeoutOf(c.options)
  /\ bin' = "pio"
  /\ UNCHANGED <<procs, outcome, others>>

GetBoardInfo(boardId) ==
  LET t == [name |-> "getBoardInfo", boardId |-> boardId] IN
  /\ pc = "idle"
  /\ IF getBoardInfoChecks(t) # NoOutcome
       THEN ToolRaises(t, getBoardInfoChecks(t))
       ELSE ToolExecutes(ToolCall(t, "executeWithJsonOutput", "boards",
                                  <<boardId>>, "PioBoardsOutputSchema",
                                  [timeout |-> 30000]))

\* initProject up to its first await, checkDirectoryExists(projectPath)
InitProject(board, framework, projectDir) ==
  LET t == [name |-> "initProject", board |-> board, framework |-> framework,
            projectDir |-> projectDir] IN
  /\ pc = "idle"
  /\ IF initProjectChecks(t) # NoOutcome
       THEN ToolRaises(t, initProjectChecks(t))
       ELSE /\ pc' = "mkdir"
            /\ call' = ToolCall(t, "execute", "project",
                         <<"init", "--board", board>>
                           \o (IF framework # ""
                                 THEN <<"--project-option", FrameworkOption(framework)>>
                                 ELSE <<>>),
                         "none",
                         [cwd |-> validateProjectPath(ToolCwd, Chars(projectDir)).value.s,
                          timeout |-> 120000])
            /\ UNCHANGED <<argv, timeout, bin, procs, outcome, others>>

\* the directory is there or mkdir made it: initProject calls the executor
DirectoryReady ==
  /\ pc = "mkdir"
  /\ dirs' = dirs \cup {call.options.cwd}
  /\ pc' = "spawning"
  /\ argv' = ExecuteArgs(call.command, call.args)
  /\ timeout' = TimeoutOf(call.options)
  /\ bin' = "pio"
  /\ UNCHANGED <<call, procs, outcome, tasks>>

\* mkdir rejects
MkdirFails ==
  /\ pc = "mkdir"
  /\ call.options.cwd \notin dirs
  /\ pc' = "done"
  /\ outcome' = Throw(ProjectInitError(
                        <<"Failed to initialize project:", "Error:", "EACCES">>,
                        call.tool))
  /\ UNCHANGED <<call, argv, timeout, bin, procs, others>>

InstallLibrary(libraryName, version, projectDir) ==
  LET t == [name |-> "installLibrary", libraryName |-> libraryName,
            version |-> version, projectDir |-> projectDir] IN
  /\ pc = "idle"
  /\ IF installLibraryChecks(t) # NoOutcome
       THEN ToolRaises(t, installLibraryChecks(t))
       ELSE ToolExecutes(ToolCall(t, "execute", "lib",
                                  <<"install", LibrarySpec(libraryName, version)>>,
                                  "none", ExecOptions(120000, projectDir)))

UninstallLibrary(libraryName, projectDir) ==
  LET t == [name |-> "uninstallLibrary", libraryName |-> libraryName,
            projectDir |-> projectDir] IN
  /\ pc = "idle"
  /\ IF uninstallLibraryChecks(t) # NoOutcome
       THEN ToolRaises(t, uninstallLibraryChecks(t))
       ELSE ToolExecutes(ToolCall(t, "execute", "lib",
                                  <<"uninstall", libraryName>>,
                                  "none", ExecOptions(60000, projectDir)))

ListInstalledLibraries(projectDir) ==
  LET t == [name |-> "listInstalledLibraries", projectDir |-> projectDir] IN
  /\ pc = "idle"
  /\ IF listInstalledLibrariesChecks(t) # NoOutcome
       THEN ToolRaises(t, listInstalledLibrariesChecks(t))
       ELSE ToolExecutes(ToolCall(t, "executeWithJsonOutput", "lib", <<"list">>,
                                  "LibrariesArraySchema",
                                  ExecOptions(30000, projectDir)))

UpdateLibraries(projectDir) ==
  LET t == [name |-> "updateLibraries", projectDir |-> projectDir] IN
  /\ pc = "idle"
  /\ IF updateLibrariesChecks(t) # NoOutcome
       THEN ToolRaises(t, updateLibrariesChecks(t))
       ELSE ToolExecutes(ToolCall(t, "execute", "lib", <<"update">>,
                                  "none", ExecOptions(180000, projectDir)))

\* listBoards: the filter is pushed on a list that is never handed over
ListBoards(filter) ==
  LET t == [name |-> "listBoards", filter |-> filter] IN
  /\ pc = "idle"
  /\ ToolExecutes(ToolCall(t, "executeWithJsonOutput", "boards", <<>>,
                           "PioBoardsOutputSchema", [timeout |-> 30000]))

ListDevices ==
  LET t == [name |-> "listDevices"] IN
  /\ pc = "idle"
  /\ ToolExecutes(ToolCall(t, "executeWithJsonOutput", "device", <<"list">>,
                           "DevicesArraySchema", [timeout |-> 10000]))

QueryWords == {"", " ", "Servo"}
Limits == {Undefined, Num(1)}

\* query.trim()
TrimWord(w) == IF w = " " THEN "" ELSE w

SearchLibraries(query, limit) ==
  LET t == [name |-> "searchLibraries", query |-> query, limit |-> limit] IN
  /\ pc = "idle"
  /\ IF query = "" \/ TrimWord(query) = ""
       THEN ToolRaises(t, Throw(LibraryError(<<"Search query is required">>,
                                             Undefined)))
       ELSE ToolExecutes(ToolCall(t, "executeWithJsonOutput", "lib",
                                  <<"search", TrimWord(query)>>,
                                  "LibrariesArraySchema", [timeout |-> 30000]))

ToolStdouts == {<<>>, <<"[]">>, <<"{", "}">>, <<"{", "\"id\"", ":", "\"x\"", "}">>}
ToolStderrs == {<<>>, <<"Error:", "Not Found">>}

NextTools ==
  \/ \E b \in BoardWords : GetBoardInfo(b)
  \/ \E b \in BoardWords, f \in FrameworkWords, d \in DirWords : InitProject(b, f, d)
  \/ DirectoryReady
  \/ MkdirFails
  \/ \E l \in LibraryWords, v \in VersionWords, d \in DirWords :
       InstallLibrary(l, v, d)
  \/ \E l \in LibraryWords, d \in DirWords : UninstallLibrary(l, d)
  \/ \E d \in DirWords : ListInstalledLibraries(d)
  \/ \E d \in DirWords : UpdateLibraries(d)
  \/ \E f \in BoardWords : ListBoards(f)
  \/ ListDevices
  \/ \E q \in QueryWords, l \in Limits : SearchLibraries(q, l)
  \/ SpawnFails("ENOENT")
  \/ SpawnStarts
  \/ ProcessExits({0, 1}, ToolStdouts, ToolStderrs)
  \/ ProcessTimesOut

SpecTools == Init /\ [][NextTools]_vars

\* a validator turns down an argument of the tool call t
Given(t, field) == field \in DOMAIN t /\ t[field] # ""

ValidatorRejects(t) ==
  \/ "boardId" \in DOMAIN t /\ ~validateBoardId(Chars(t.boardId))
  \/ "board" \in DOMAIN t /\ ~validateBoardId(Chars(t.board))
  \/ Given(t, "framework") /\ ~validateFramework(Chars(t.framework))
  \/ "libraryName" \in DOMAIN t /\ ~validateLibraryName(Chars(t.libraryName))
  \/ Given(t, "version") /\ ~validateVersion(Chars(t.version))
  \/ /\ "projectDir" \in DOMAIN t
     /\ t.name = "initProject" \/ t.projectDir # ""
     /\ validateProjectPath(ToolCwd, Chars(t.projectDir)).kind = "throw"

\* C16: when a validator rejects an argument of getBoardInfo, initProject,
\* installLibrary, uninstallLibrary, listInstalledLibraries or
\* updateLibraries, the call raises its error with no process spawned and,
\* for initProject, no project directory made.
C16_RejectedBeforeAnyProcess ==
  "tool" \in DOMAIN call /\ ValidatorRejects(call.tool) =>
    /\ pc = "done"
    /\ outcome.kind = "throw"
    /\ outcome.error.class \in {"BoardNotFoundError", "ProjectInitError", "LibraryError"}
    /\ procs = <<>>
    /\ dirs = {}

C16_Witness ==
  /\ pc = "done"
  /\ "tool" \in DOMAIN call
  /\ call.tool.name = "initProject"
  /\ call.tool.board = "uno"
  /\ call.tool.framework = "Arduino"
  /\ call.tool.projectDir = "proj"
  /\ RaisedCode("PROJECT_INIT_FAILED")
  /\ procs = <<>>
  /\ dirs = {}

----------------------------------------------------------------------------
(* The validators and sanitizeInput applied to JavaScript values of any    *)
(* type.                                                                   *)

\* longest text given to sanitizeInput
MaxTextLen == 4

\* [\x00-\x1F\x7F]: tab, line feed, ..., and NUL, ESC and DEL by their names
ControlChars == {"\t", "\n", "\r", "\f", "NUL", "ESC", "DEL"}

\* s.replace(/[class]/g, '')
remove(s, class) == SelectSeq(s, LAMBDA c : c \notin class)

TypeError(message) == [class |-> "TypeError", message |-> message]

\* !value || typeof value !== 'string'
NoString(v) == ~Truthy(v) \/ v.t # "string"

\* the function without its typeof test: a truthy value that is no string
\* has no replace method
sanitizeInput_NoTypeTest(input) ==
  IF ~Truthy(input) THEN Return(Str(<<>>))
  ELSE IF input.t # "string"
    THEN Throw(TypeError(<<"input.replace is not a function">>))
  ELSE Return(Str(trim(remove(remove(input.s, ControlChars), ShellMeta))))

\* the function trimming before it deletes
sanitizeInput_TrimFirst(input) ==
  IF NoString(input) THEN Return(Str(<<>>))
  ELSE Return(Str(remove(remove(trim(input.s), ControlChars), ShellMeta)))

\* once the control characters are gone the white space left in a text over
\* SanitizeChars is the space, which is what trim strips
sanitizeInput(input) ==
  IF NoString(input) THEN Return(Str(<<>>))
  ELSE Return(Str(trim(remove(remove(input.s, ControlChars), ShellMeta))))

\* a validator called with a value of any type
CallValidator(api, v) ==
  CASE api = "validateBoardId" ->
         Return(Bool(~NoString(v) /\ validateBoardId(v.s)))
    [] api = "validateSerialPort" ->
         Return(Bool(~NoString(v) /\ validateSerialPort(v.s)))
    [] api = "validateLibraryName" ->
         Return(Bool(~NoString(v) /\ validateLibraryName(v.s)))
    [] api = "validateFramework" ->
         Return(Bool(~NoString(v) /\ validateFramework(v.s)))
    [] api = "validateEnvironmentName" ->
         Return(Bool(~NoString(v) /\ validateEnvironmentName(v.s)))
    [] api = "validateVersion" ->
         Return(Bool(~NoString(v) /\ validateVersion(v.s)))
    [] api = "validateBaudRate" -> Return(Bool(validateBaudRate(v)))
    [] api = "sanitizeInput" -> sanitizeInput(v)
    [] api = "validateProjectPath" ->
         IF NoString(v) THEN Throw(PathRequired)
         ELSE validateProjectPath(ToolCwd, v.s)

SanitizeChars == {"a", " ", ";", "$", "(", "\t", "DEL"}
SanitizeTexts == UNION {[1..n -> SanitizeChars] : n \in 0..MaxTextLen}

Predicates ==
  {"validateBoardId", "validateSerialPort", "validateLibraryName",
   "validateFramework", "validateEnvironmentName", "validateVersion",
   "validateBaudRate"}

AnyValues ==
  {Undefined, Null, Bool(TRUE), Bool(FALSE), Num(0), Num(-1), Num(9600), NaN,
   Half(9600), Infinity, [t |-> "object"], [t |-> "function"],
   Str(<<>>), Str(<<" ">>), Str(<<"a", "b">>), Str(<<"1", ".", "0">>),
   Str(Com \o <<"1">>), Str(<<"a", ".", ".", "a">>), Str(<<"a", ";", "\n">>)}

Bauds ==
  {Num(n) : n \in {-9600, -1, 0, 1, 299, 300, 9600, 115200, 921600, 1999999,
                   2000000, 2000001, 3000000}}
    \cup {Half(n) : n \in {-1, 0, 9600, 115200}} \cup {NaN, Infinity}

ValidateBaudRate(v) == Validate("validateBaudRate", v, validateBaudRate(v))

\* C21: validateBaudRate(n) is true exactly when n is an integer that is a
\* standard rate or lies in (0, 2000000]: true for 115200, false for 0, for
\* negative values, for non-integers and for 2000001.
C21_BaudRateAcceptedIff ==
  Validated("validateBaudRate") /\ call.input.t = "number" =>
    /\ Accepted <=>
         /\ DOMAIN call.input = {"t", "n"}
         /\ \/ call.input.n \in {300, 1200, 2400, 4800, 9600, 14400, 19200,
                                 28800, 38400, 57600, 115200, 230400, 460800,
                                 921600}
            \/ (0 < call.input.n /\ call.input.n <= 2000000)
    /\ call.input = Num(115200) => Accepted
    /\ call.input \in {Num(0), Num(-9600), Num(2000001), Half(9600), NaN}
         => ~Accepted

C21_Witness ==
  /\ Validated("validateBaudRate")
  /\ call.input = Num(2000001)
  /\ outcome = Return(Bool(FALSE))

SanitizeInput(text) ==
  /\ pc = "idle"
  /\ pc' = "done"
  /\ call' = [api |-> "sanitizeInput", input |-> Str(text)]
  /\ outcome' = sanitizeInput(Str(text))
  /\ UNCHANGED <<argv, timeout, bin, procs, others>>

CallWithAnyValue(api, v) ==
  /\ pc = "idle"
  /\ pc' = "done"
  /\ call' = [api |-> api, input |-> v]
  /\ outcome' = CallValidator(api, v)
  /\ UNCHANGED <<argv, timeout, bin, procs, others>>

NextValues ==
  /\ pc = "idle"
  /\ \/ \E v \in Bauds : ValidateBaudRate(v)
     \/ \E text \in SanitizeTexts : SanitizeInput(text)
     \/ \E api \in Predicates \cup {"sanitizeInput", "validateProjectPath"},
           v \in AnyValues : CallWithAnyValue(api, v)

SpecValues == Init /\ [][NextValues]_vars

\* the characters of s that are neither control nor shell characters
Harmless(s) ==
  SelectSeq(s, LAMBDA c : c \notin {"\t", "\n", "\r", "\f", "NUL", "ESC", "DEL",
                                    ";", "&", "|", "backquote", "$", "(", ")"})

IsSpace(c) == c = " "

\* C22: sanitizeInput(s) holds no control character and no shell
\* metacharacter, and is s with exactly those characters deleted and the
\* white space around the rest trimmed: what is kept is kept in order.
C22_SanitizeDeletesAndTrims ==
  pc = "done" /\ call.api = "sanitizeInput" /\ call.input.t = "string" =>
    /\ outcome.kind = "return"
    /\ LET out == outcome.value.s
           kept == Harmless(call.input.s)
       IN /\ \A i \in DOMAIN out : out[i] \notin ControlChars \cup ShellMeta
          /\ \E i \in 1..(Len(kept) + 1), j \in 0..Len(kept) :
               /\ out = SubSeq(kept, i, j)
               /\ \A k \in 1..(i - 1) : IsSpace(kept[k])
               /\ \A k \in (j + 1)..Len(kept) : IsSpace(kept[k])
               /\ out # <<>> => ~IsSpace(out[1]) /\ ~IsSpace(out[Len(out)])

C22_Witness ==
  /\ pc = "done"
  /\ call.api = "sanitizeInput"
  /\ call.input = Str(<<";", " ", "a", "$">>)
  /\ outcome = Return(Str(<<"a">>))

\* C23: every validation predicate returns a boolean for every input, false
\* for the empty string, for a value of the wrong type, for null, undefined
\* and NaN; sanitizeInput returns a string for every input; none of them
\* raises or changes anything, and validateProjectPath alone raises.
C23_PredicatesAreTotal ==
  pc = "done" /\ call.api \in Predicates \cup {"sanitizeInput"} =>
    /\ outcome.kind = "return"
    /\ call.api \in Predicates =>
         /\ outcome.value \in {Bool(TRUE), Bool(FALSE)}
         /\ call.input \in {Undefined, Null, NaN, Str(<<>>), Bool(TRUE), Bool(FALSE),
                            [t |-> "object"], [t |-> "function"]}
              => outcome.value = Bool(FALSE)
         /\ call.input.t = "number" /\ call.api # "validateBaudRate"
              => outcome.value = Bool(FALSE)
         /\ call.input.t = "string" /\ call.api = "validateBaudRate"
              => outcome.value = Bool(FALSE)
    /\ call.api = "sanitizeInput" => outcome.value.t = "string"
    /\ procs = <<>> /\ dirs = {} /\ tasks = <<>> /\ argv = <<>>

C23_Witness ==
  /\ pc = "done"
  /\ call.api = "sanitizeInput"
  /\ call.input = Num(9600)
  /\ outcome = Return(Str(<<>>))

----------------------------------------------------------------------------
(* The codes of the errors the executor raises *)

ExecutorCodes ==
  {"PLATFORMIO_NOT_INSTALLED", "COMMAND_TIMEOUT", "COMMAND_FAILED",
   "INVALID_JSON", "PARSE_ERROR"}

HasField(r, field) == r # Undefined /\ field \in DOMAIN r

\* C24: every error execute or executeWithJsonOutput raises carries a
\* defined code that identifies its kind: PLATFORMIO_NOT_INSTALLED,
\* COMMAND_TIMEOUT with the command and the timeout, COMMAND_FAILED with
\* stderr and exitCode, INVALID_JSON and PARSE_ERROR with a sample of the
\* output of at most 500 characters; the empty-output error has a code of
\* its own too, and no error is raised without one.
C24_RaisedErrorsCarryCode ==
  Done /\ outcome.kind = "throw" =>
    LET error == outcome.error IN
    /\ error.code # Undefined
    /\ error.code.t = "string"
    /\ error.message = <<"Empty output from PlatformIO command">>
         => error.code.s \notin {<<c>> : c \in ExecutorCodes}
    /\ error.message # <<"Empty output from PlatformIO command">>
         => error.code.s \in {<<c>> : c \in ExecutorCodes}
    /\ error.class = "PlatformIONotInstalledError"
         <=> error.code = Str(<<"PLATFORMIO_NOT_INSTALLED">>)
    /\ error.class = "CommandTimeoutError"
         <=> error.code = Str(<<"COMMAND_TIMEOUT">>)
    /\ error.code = Str(<<"COMMAND_TIMEOUT">>)
         => HasField(error.context, "command") /\ HasField(error.context, "timeout")
    /\ error.code = Str(<<"COMMAND_FAILED">>)
         => HasField(error.context, "stderr") /\ HasField(error.context, "exitCode")
    /\ error.code \in {Str(<<"INVALID_JSON">>), Str(<<"PARSE_ERROR">>)}
         => /\ HasField(error.context, "output")
            /\ Len(error.context.output.s) <= 500

----------------------------------------------------------------------------
(* The timeouts the tools hand to the executor *)

DiscoveryQueries ==
  {"listBoards", "getBoardInfo", "listDevices", "searchLibraries",
   "listInstalledLibraries"}

\* the tool call has built the executor call it makes
CallsExecutor == "tool" \in DOMAIN call /\ call.api # "none"

\* C25: a tool hands the executor 30 s for a discovery query (board list,
\* board info, device list, library search, installed-library list), 2 min
\* for library install and project init and 3 min for library update; the
\* executor runs the process with the timeout handed over, and with the
\* 5-minute default when none is.
C25_ToolTimeouts ==
  CallsExecutor =>
    /\ call.tool.name \in DiscoveryQueries => call.options.timeout = 30000
    /\ call.tool.name \in {"installLibrary", "initProject"}
         => call.options.timeout = 120000
    /\ call.tool.name = "updateLibraries" => call.options.timeout = 180000
    /\ pc \in {"spawning", "running"} =>
         timeout = IF "timeout" \in DOMAIN call.options
                     THEN call.options.timeout ELSE 300000

----------------------------------------------------------------------------
(* The order of the binary candidates, and the wait of one call *)

\* C26: the candidates are tried in the order 'pio', 'platformio', stopping
\* at the first that is not an operating-system not-found failure: the alias
\* is attempted only after 'pio' failed because the binary does not exist,
\* with the same argument vector, working directory and timeout, and never
\* when 'pio' ran (to success, to a non-zero exit or to the timeout).
C26_AliasOnlyAfterPrimaryNotFound ==
  /\ Len(procs) <= 2
  /\ procs # <<>> => procs[1].file = "pio"
  /\ Len(procs) = 2 =>
       /\ procs[2].file = "platformio"
       /\ procs[1].fate = "ENOENT"
       /\ procs[2].args = procs[1].args
       /\ procs[2].cwd = procs[1].cwd
       /\ procs[2].timeout = procs[1].timeout
  /\ (Done /\ procs[1].fate = "ENOENT") => Len(procs) = 2
  /\ (Done /\ 1 \in Started) => Len(procs) = 1

\* C27: a process that does not exit on its own is killed when the timeout
\* elapses, and the kill ends the call: the call raises or returns at once,
\* and the killed process is the only one the call waited for, so that the
\* wait of one call is bounded by one timeout, not by a multiple of it.
C27_WaitBoundedByOneTimeout ==
  \A i \in DOMAIN procs :
    procs[i].fate = "timeout" =>
      /\ Done
      /\ Started = {i}
      /\ outcome.kind \in {"throw", "return"}

----------------------------------------------------------------------------
(* startMonitor and the values it is given *)

Supplied(v) == v # Undefined

\* C28: startMonitor spawns no process; it raises INVALID_PORT for every
\* supplied port that validateSerialPort rejects (the empty string too) and
\* INVALID_BAUD for every supplied baud rate that validateBaudRate rejects
\* (0 too), so that a result with success: true implies that each supplied
\* port and baud rate satisfied its validator.
C28_SuccessOnlyForValidatedInput ==
  pc = "done" /\ call.api = "startMonitor" =>
    LET portRejected == Supplied(call.port) /\ ~validateSerialPort(call.port.s)
        baudRejected == Supplied(call.baud) /\ ~validateBaudRate(call.baud)
    IN
    /\ procs = <<>>
    /\ portRejected => RaisedCode("INVALID_PORT")
    /\ (~portRejected /\ baudRejected) => RaisedCode("INVALID_BAUD")
    /\ outcome.kind = "return" =>
         /\ outcome.value.success
         /\ ~portRejected
         /\ ~baudRejected

----------------------------------------------------------------------------
(* listDevices and listInstalledLibraries: errors taken for an empty list *)

ListTools == {"listDevices", "listInstalledLibraries"}

\* the last attempt of the call did not run the tool to exit status 0
FailedToRun ==
  LET last == procs[Len(procs)] IN
  \/ last.fate \in {"ENOENT", "timeout"}
  \/ last.fate = "exited" /\ last.status # Num(0)

\* C29: listDevices and listInstalledLibraries turn an error of the executor
\* into an empty list only when its message holds 'no devices' /
\* 'no libraries' or 'empty', as the error for blank output does; when the
\* tool was not found, timed out or exited non-zero the error is raised
\* again, as LIST_DEVICES_FAILED and as LibraryError, never an empty list.
C29_FailureToRunIsNotAnEmptyList ==
  (Done /\ CallsExecutor /\ call.tool.name \in ListTools) =>
    LET last == procs[Len(procs)] IN
    /\ FailedToRun =>
         /\ call.tool.name = "listDevices" => RaisedCode("LIST_DEVICES_FAILED")
         /\ call.tool.name = "listInstalledLibraries" => Raised("LibraryError")
    /\ outcome.kind = "return" => last.fate = "exited" /\ last.status = Num(0)
    /\ (~FailedToRun /\ IsBlank(last.stdout)) => outcome = Return(<<>>)

C29_Witness ==
  /\ Done /\ CallsExecutor /\ call.tool.name = "listDevices"
  /\ procs[Len(procs)].fate = "timeout"
  /\ RaisedCode("LIST_DEVICES_FAILED")

----------------------------------------------------------------------------
(* checkInstallation and getVersion of the executor *)

\* both run execPioCommand(['--version'], { timeout: 5000 })
VersionCall(name) ==
  /\ pc = "idle"
  /\ call' = [api |-> "execPioCommand", command |-> "--version", args |-> <<>>,
              schema |-> "none", options |-> [timeout |-> 5000],
              tool |-> [name |-> name]]
  /\ argv' = <<"--version">>
  /\ timeout' = TimeoutOf([timeout |-> 5000])
  /\ bin' = "pio"
  /\ pc' = "spawning"
  /\ UNCHANGED <<procs, outcome, others>>

CheckInstallation == VersionCall("checkInstallation")

GetVersion == VersionCall("getVersion")

VersionStdouts ==
  {<<>>, <<"PlatformIO Core,", "version", "6.1.0">>,
   <<"PlatformIO Core,", "Version", "6.1.0rc1">>, <<"platformio">>,
   <<"version", "unknown">>, <<" ", "6.1.0", " ">>}

NextVersion ==
  \/ CheckInstallation
  \/ GetVersion
  \/ \E e \in {"ENOENT", "EACCES"} : SpawnFails(e)
  \/ SpawnStarts
  \/ ProcessExits({0, 1}, VersionStdouts, ToolStderrs)
  \/ ProcessTimesOut
  \/ ProcessOverflows

SpecVersion == Init /\ [][NextVersion]_vars

\* the last attempt exited 0 and printed the word PlatformIO
ExitedZeroNamingPlatformIO ==
  LET last == procs[Len(procs)] IN
  /\ last.fate = "exited" /\ last.status = Num(0)
  /\ \E i \in DOMAIN last.stdout : last.stdout[i] = "PlatformIO Core,"

\* C30: checkInstallation returns false, and does not raise, when neither
\* binary is found; it returns true exactly when the '--version' run exits 0
\* with stdout containing 'PlatformIO'; what it raises is a failure of the
\* executor other than ToolNotInstalled.  getVersion raises ToolNotInstalled
\* unchanged and reports every other failure as a PlatformIOError without
\* code, 'Failed to get PlatformIO version'.
C30_CheckInstallationAndGetVersion ==
  (Done /\ CallsExecutor) =>
    LET last == procs[Len(procs)] IN
    /\ call.tool.name = "checkInstallation" =>
         /\ BothNotFound => outcome = Return(Bool(FALSE))
         /\ outcome = Return(Bool(TRUE)) <=> ExitedZeroNamingPlatformIO
         /\ outcome.kind = "return" => outcome.value \in {Bool(TRUE), Bool(FALSE)}
         /\ outcome.kind = "throw" =>
              /\ ~ToolNotInstalled
              /\ outcome.error.class \in {"CommandTimeoutError", "Error", "RangeError"}
              /\ last.fate \notin {"ENOENT", "exited"}
    /\ call.tool.name = "getVersion" =>
         /\ BothNotFound => outcome = Throw(PlatformIONotInstalledError)
         /\ outcome.kind = "throw" =>
              outcome.error \in {PlatformIONotInstalledError, FailedToGetVersion}
         /\ (last.stderr = <<>> /\ (last.fate \in {"timeout", "EACCES", "maxBuffer"}
                                    \/ last.status = Num(1)))
              => outcome = Throw(FailedToGetVersion)
         /\ (last.fate = "exited" /\ last.status = Num(0)) =>
              /\ outcome.kind = "return"
              /\ last.stdout = <<"PlatformIO Core,", "version", "6.1.0">>
                   => outcome.value = Str(<<"6.1.0">>)

C30_Witness ==
  /\ Done /\ CallsExecutor /\ call.tool.name = "checkInstallation"
  /\ BothNotFound
  /\ outcome = Return(Bool(FALSE))

====
